---- MODULE Spec2Model ----
(***************************************************************************)
(* YAMLScript: TypeScript code blocks embedded in YAML documents.          *)
(*                                                                         *)
(* The model follows src/src/extension.ts: the virtual document provider,  *)
(* the detection of code blocks (structural pass over the parsed YAML      *)
(* tree, regex fallback), the translation of TypeScript diagnostics to     *)
(* positions of the YAML document, and the handlers of the open / change / *)
(* close / diagnostics-changed notifications.                              *)
(*                                                                         *)
(* Offsets, lines and columns are 0-based, as in the source.  Texts are    *)
(* strings; a character is a string of length 1.                           *)
(***************************************************************************)
EXTENDS Integers, Sequences, FiniteSets, TLC

(***************************************************************************)
(* Strings, as JavaScript sees them                                        *)
(***************************************************************************)

\* const name = value; body: the value is computed once
With(value, Body(_)) == CHOOSE result \in {Body(v) : v \in {value}} : TRUE

Min(a, b) == IF a <= b THEN a ELSE b

Max(a, b) == IF a >= b THEN a ELSE b

\* s.charAt(i); the empty string outside the text
CharAt(s, i) == IF i >= 0 /\ i < Len(s) THEN SubSeq(s, i + 1, i + 1) ELSE ""

\* s.substring(a, b): both ends clamped to 0..length, swapped when a > b
Substring(s, a, b) ==
    LET ca == Max(0, Min(a, Len(s)))
        cb == Max(0, Min(b, Len(s)))
    IN  SubSeq(s, Min(ca, cb) + 1, Max(ca, cb))

\* s.substring(a)
SubstringFrom(s, a) == Substring(s, a, Len(s))

\* hay.startsWith(needle, i)
StartsWithAt(hay, needle, i) ==
    /\ i >= 0
    /\ i + Len(needle) <= Len(hay)
    /\ SubSeq(hay, i + 1, i + Len(needle)) = needle

\* hay.indexOf(needle, from): the first index >= from where needle occurs, -1 if none
IndexOfFrom(hay, needle, from) ==
    LET hits == {i \in Max(0, from)..(Len(hay) - Len(needle)) : StartsWithAt(hay, needle, i)}
    IN  IF hits = {} THEN 0 - 1
        ELSE CHOOSE i \in hits : \A j \in hits : i <= j

IndexOf(hay, needle) == IndexOfFrom(hay, needle, 0)

\* the characters of a string, as a set
CharsOf(s) == {SubSeq(s, i, i) : i \in 1..Len(s)}

LowerCaseLetters == "abcdefghijklmnopqrstuvwxyz"

UpperCaseLetters == "ABCDEFGHIJKLMNOPQRSTUVWXYZ"

DecimalDigits == "0123456789"

\* \w of a JavaScript regular expression
WordChars == CharsOf(LowerCaseLetters) \cup CharsOf(UpperCaseLetters)
                \cup CharsOf(DecimalDigits) \cup {"_"}

\* \s of a JavaScript regular expression (the ASCII part)
WhiteSpace == {" ", "\t", "\n", "\r", "\f"}

\* the characters the dot of a regular expression does not match
LineTerminators == {"\n", "\r"}

\* [ \t]
BlankChars == {" ", "\t"}

IsWordAt(s, i) == CharAt(s, i) \in WordChars

IsSpaceAt(s, i) == CharAt(s, i) \in WhiteSpace

\* the canonical form the i flag compares by
ToLowerCase(c) ==
    IF c \in CharsOf(UpperCaseLetters)
    THEN SubSeq(LowerCaseLetters, IndexOf(UpperCaseLetters, c) + 1,
                IndexOf(UpperCaseLetters, c) + 1)
    ELSE c

\* a literal (given in lower case) matches at i, ignoring case
StartsWithAtIgnoreCase(hay, needle, i) ==
    /\ i >= 0
    /\ i + Len(needle) <= Len(hay)
    /\ \A k \in 1..Len(needle) : ToLowerCase(CharAt(hay, i + k - 1)) = SubSeq(needle, k, k)

\* the end (exclusive) of the longest run of characters of class cls that starts at i
RECURSIVE RunEnd(_, _, _)
RunEnd(s, i, cls) ==
    IF i < Len(s) /\ CharAt(s, i) \in cls THEN RunEnd(s, i + 1, cls) ELSE i

\* the end (exclusive) of the longest run of characters outside cls that starts at i
RECURSIVE RunEndNot(_, _, _)
RunEndNot(s, i, cls) ==
    IF i < Len(s) /\ CharAt(s, i) \notin cls THEN RunEndNot(s, i + 1, cls) ELSE i

\* s.split('\n')
RECURSIVE SplitLines(_)
SplitLines(s) ==
    LET nl == IndexOf(s, "\n")
    IN  IF nl < 0 THEN <<s>>
        ELSE <<Substring(s, 0, nl)>> \o SplitLines(SubstringFrom(s, nl + 1))

\* lines.join('\n')
RECURSIVE JoinLines(_)
JoinLines(lines) ==
    IF Len(lines) = 0 THEN ""
    ELSE IF Len(lines) = 1 THEN lines[1]
    ELSE lines[1] \o "\n" \o JoinLines(Tail(lines))

\* s.trim()
Trim(s) ==
    LET keep == {i \in 0..(Len(s) - 1) : CharAt(s, i) \notin WhiteSpace}
    IN  IF keep = {} THEN ""
        ELSE Substring(s, CHOOSE i \in keep : \A j \in keep : i <= j,
                          (CHOOSE i \in keep : \A j \in keep : i >= j) + 1)

(***************************************************************************)
(* Code blocks and the helpers of the detection                            *)
(***************************************************************************)

\* interface CodeBlock
CodeBlock(code, startLine, endLine, startOffset, endOffset) ==
    [language |-> "typescript", code |-> code, startLine |-> startLine,
     endLine |-> endLine, startOffset |-> startOffset, endOffset |-> endOffset]

\* the alternatives of the first pattern of looksLikeTypeScript
TsKeywords == {"const", "let", "var", "function", "class", "interface", "type",
               "enum", "namespace", "import", "export"}

\* the alternatives of the second pattern of looksLikeTypeScript
TsTypeNames == {"string", "number", "boolean", "any", "void", "unknown", "never"}

\* \b at offset i of s: exactly one of the two neighbours is a word character
WordBoundaryAt(s, i) == IsWordAt(s, i - 1) # IsWordAt(s, i)

\* /\b(const|let|var|function|class|interface|type|enum|namespace|import|export)\b/
MatchesKeyword(code) ==
    \E i \in 0..(Len(code) - 1) : \E kw \in TsKeywords :
        /\ StartsWithAt(code, kw, i)
        /\ WordBoundaryAt(code, i)
        /\ WordBoundaryAt(code, i + Len(kw))

\* /:\s*(string|number|boolean|any|void|unknown|never)/
MatchesTypeAnnotation(code) ==
    \E i \in 0..(Len(code) - 1) :
        /\ CharAt(code, i) = ":"
        /\ \E t \in TsTypeNames : StartsWithAt(code, t, RunEnd(code, i + 1, WhiteSpace))

\* /=>/
MatchesArrow(code) == IndexOf(code, "=>") >= 0

\* /\bimport\s+.*\bfrom\b/
MatchesImportFrom(code) ==
    \E i \in 0..(Len(code) - 1) :
        /\ StartsWithAt(code, "import", i)
        /\ WordBoundaryAt(code, i)
        /\ \E f \in (i + 7)..(Len(code) - 1) :
              /\ StartsWithAt(code, "from", f)
              /\ WordBoundaryAt(code, f)
              /\ WordBoundaryAt(code, f + 4)
              \* \s+ takes k blanks, the dot takes the rest up to f
              /\ \E k \in (i + 7)..f :
                    /\ \A j \in (i + 6)..(k - 1) : IsSpaceAt(code, j)
                    /\ \A j \in k..(f - 1) : CharAt(code, j) \notin LineTerminators

\* /<.*>/
MatchesGeneric(code) ==
    \E i \in 0..(Len(code) - 1) :
        /\ CharAt(code, i) = "<"
        /\ \E j \in (i + 1)..(Len(code) - 1) :
              /\ CharAt(code, j) = ">"
              /\ \A k \in (i + 1)..(j - 1) : CharAt(code, k) \notin LineTerminators

\* the heuristic, were the arrow pattern left out of tsPatterns
looksLikeTypeScriptWithoutArrow(code) ==
    \/ MatchesKeyword(code)
    \/ MatchesTypeAnnotation(code)
    \/ MatchesImportFrom(code)
    \/ MatchesGeneric(code)

\* tsPatterns.some(pattern => pattern.test(code))
looksLikeTypeScript(code) ==
    \/ MatchesKeyword(code)
    \/ MatchesTypeAnnotation(code)
    \/ MatchesArrow(code)
    \/ MatchesImportFrom(code)
    \/ MatchesGeneric(code)

\* line.match(/^[ \t]*/)[0].length
LeadingBlanks(line) == RunEnd(line, 0, BlankChars)

\* Math.min(...) over a non-empty sequence of numbers
MinOf(nums) == CHOOSE n \in {nums[i] : i \in 1..Len(nums)} :
                   \A i \in 1..Len(nums) : n <= nums[i]

dedentCode(code) ==
    LET lines == SplitLines(code)
        nonEmptyLines == SelectSeq(lines, LAMBDA line : Len(Trim(line)) > 0)
        minIndent == MinOf([i \in 1..Len(nonEmptyLines) |-> LeadingBlanks(nonEmptyLines[i])])
    IN  IF Len(nonEmptyLines) = 0 THEN code
        ELSE JoinLines([i \in 1..Len(lines) |-> SubstringFrom(lines[i], minIndent)])

getLineNumber(text, offset) == Len(SplitLines(Substring(text, 0, offset))) - 1

(***************************************************************************)
(* The regex fallback pass                                                 *)
(***************************************************************************)

NoMatch == [ok |-> FALSE, index |-> 0, codeStart |-> 0, end |-> 0]

\* (?:[ \t]+.*\n?)+ from pos on: the end (exclusive) of the lines that start
\* with a blank; every quantifier is greedy and nothing follows the group
RECURSIVE IndentedBlockEnd(_, _)
IndentedBlockEnd(text, pos) ==
    IF CharAt(text, pos) \in BlankChars
    THEN LET lineEnd == RunEndNot(text, RunEnd(text, pos, BlankChars), LineTerminators)
         IN  IndentedBlockEnd(text, IF CharAt(text, lineEnd) = "\n" THEN lineEnd + 1
                                    ELSE lineEnd)
    ELSE pos

\* :\s*[|>][-+]?\s*\n((?:[ \t]+.*\n?)+) with the colon at offset colon; index is
\* where the whole match began.  The greedy \s* before \n gives way to the last
\* line break of the blank run that an indented line follows.
BlockScalarTail(text, index, colon) ==
    LET indicator == RunEnd(text, colon + 1, WhiteSpace)
        afterChomp == IF CharAt(text, indicator + 1) \in {"-", "+"}
                      THEN indicator + 2 ELSE indicator + 1
        blanksEnd == RunEnd(text, afterChomp, WhiteSpace)
        breaks == {q \in afterChomp..(blanksEnd - 1) :
                      CharAt(text, q) = "\n" /\ CharAt(text, q + 1) \in BlankChars}
        lastBreak == CHOOSE q \in breaks : \A r \in breaks : r <= q
    IN  IF CharAt(text, colon) = ":" /\ CharAt(text, indicator) \in {"|", ">"} /\ breaks # {}
        THEN [ok |-> TRUE, index |-> index, codeStart |-> lastBreak + 1,
              end |-> IndentedBlockEnd(text, lastBreak + 1)]
        ELSE NoMatch

\* /#\s*typescript:\s*\n\s*\w+:\s*[|>][-+]?\s*\n((?:[ \t]+.*\n?)+)/gi tried at offset i
tsMarkerPatternAt(text, i) ==
    LET word == RunEnd(text, i + 1, WhiteSpace)
        afterWord == word + Len("typescript:")
        key == RunEnd(text, afterWord, WhiteSpace)
        colon == RunEnd(text, key, WordChars)
    IN  IF /\ CharAt(text, i) = "#"
           /\ StartsWithAtIgnoreCase(text, "typescript:", word)
           /\ \E q \in afterWord..(key - 1) : CharAt(text, q) = "\n"
           /\ colon > key
        THEN BlockScalarTail(text, i, colon)
        ELSE NoMatch

\* /(\w*script\w*|\w*code\w*):\s*[|>][-+]?\s*\n((?:[ \t]+.*\n?)+)/gi tried at offset i
codeBlockPatternAt(text, i) ==
    LET colon == RunEnd(text, i, WordChars)
    IN  IF \E k \in i..(colon - 1) :
              \/ StartsWithAtIgnoreCase(text, "script", k) /\ k + Len("script") <= colon
              \/ StartsWithAtIgnoreCase(text, "code", k) /\ k + Len("code") <= colon
        THEN BlockScalarTail(text, i, colon)
        ELSE NoMatch

\* the least element of a non-empty set of numbers
Least(nums) == CHOOSE n \in nums : \A m \in nums : n <= m

\* a match put before the matches found from its end on
MatchThen(match, Rest(_)) == <<match>> \o Rest(match.end)

\* while ((match = tsMarkerPattern.exec(text)) !== null): the matches from
\* lastIndex on, each search starting where the previous match ended
RECURSIVE tsMarkerMatches(_, _)
tsMarkerMatches(text, lastIndex) ==
    With({i \in lastIndex..(Len(text) - 1) : tsMarkerPatternAt(text, i).ok},
         LAMBDA starts :
            IF starts = {} THEN <<>>
            ELSE MatchThen(tsMarkerPatternAt(text, Least(starts)),
                           LAMBDA end : tsMarkerMatches(text, end)))

\* while ((match = codeBlockPattern.exec(text)) !== null)
RECURSIVE codeBlockMatches(_, _)
codeBlockMatches(text, lastIndex) ==
    With({i \in lastIndex..(Len(text) - 1) : codeBlockPatternAt(text, i).ok},
         LAMBDA starts :
            IF starts = {} THEN <<>>
            ELSE MatchThen(codeBlockPatternAt(text, Least(starts)),
                           LAMBDA end : codeBlockMatches(text, end)))

\* the block pushed for the code found at startOffset
BlockAt(text, code, startOffset) ==
    CodeBlock(dedentCode(code),
              getLineNumber(text, startOffset),
              getLineNumber(text, startOffset + Len(code)),
              startOffset,
              startOffset + Len(code))

\* match[2] of a match of codeBlockPattern, match[1] of one of tsMarkerPattern
MatchedCode(text, match) == Substring(text, match.codeStart, match.end)

\* the block pushed for one match: code = match[1] or match[2],
\* startOffset = match.index + match[0].indexOf(code)
RegexBlock(text, match) ==
    With(MatchedCode(text, match),
         LAMBDA code :
            BlockAt(text, code,
                    match.index + IndexOf(Substring(text, match.index, match.end), code)))

\* the blocks pushed for the matches, in their order
BlocksOfMatches(text, matches) == [i \in 1..Len(matches) |-> RegexBlock(text, matches[i])]

\* the regex pass, were the matches of codeBlockPattern pushed without the test
\* of looksLikeTypeScript
extractCodeBlocksWithRegexUntested(text) ==
    BlocksOfMatches(text, tsMarkerMatches(text, 0))
        \o BlocksOfMatches(text, codeBlockMatches(text, 0))

extractCodeBlocksWithRegex(text) ==
    BlocksOfMatches(text, tsMarkerMatches(text, 0))
        \o BlocksOfMatches(text, SelectSeq(codeBlockMatches(text, 0),
                                 LAMBDA match : looksLikeTypeScript(MatchedCode(text, match))))

(***************************************************************************)
(* yaml.parseDocument                                                      *)
(*                                                                         *)
(* The parser is the yaml package's, not this repository's.  It is         *)
(* modelled for block-style YAML: block maps and sequences nested by       *)
(* indentation, literal and folded block scalars with their chomping       *)
(* indicators, one-line plain and double-quoted scalars, comments.  A      *)
(* parse has one of three outcomes: "ok" with the tree, "malformed" (the   *)
(* text is no YAML, and parsing is taken to throw, which is the case the   *)
(* catch of extractCodeBlocks is written for), or "unsupported" (YAML      *)
(* outside the modelled subset; such texts are left out of the inputs).    *)
(* A node carries range = <<start, valueEnd, nodeEnd>> as the package      *)
(* reports it; for a block scalar start is the offset of its indicator.    *)
(***************************************************************************)

Null == [kind |-> "null"]

Scalar(value, typeofValue, start, end) ==
    [kind |-> "Scalar", value |-> value, typeofValue |-> typeofValue,
     range |-> <<start, end, end>>]

Pair(key, value) == [kind |-> "Pair", key |-> key, value |-> value]

YAMLMap(items) == [kind |-> "YAMLMap", items |-> items]

YAMLSeq(items) == [kind |-> "YAMLSeq", items |-> items]

Parsed(node, next) == [status |-> "ok", node |-> node, next |-> next]

NotParsed(status) == [status |-> status, node |-> Null, next |-> 0]

\* the offset of the first character of line i (lines are numbered from 1 here)
RECURSIVE LineStart(_, _)
LineStart(lines, i) ==
    IF i <= 1 THEN 0 ELSE LineStart(lines, i - 1) + Len(lines[i - 1]) + 1

\* the offset just after line i and its line break, if it has one
LineEnd(lines, i) ==
    IF i < Len(lines) THEN LineStart(lines, i + 1) ELSE LineStart(lines, i) + Len(lines[i])

Indent(line) == RunEnd(line, 0, {" "})

IsBlankLine(line) == RunEnd(line, 0, BlankChars) = Len(line)

IsCommentLine(line) == CharAt(line, Indent(line)) = "#"

\* the first line from i on that is neither blank nor a comment; Len(lines) + 1 if none
NextSignificant(lines, i) ==
    LET found == {j \in i..Len(lines) : ~IsBlankLine(lines[j]) /\ ~IsCommentLine(lines[j])}
    IN  IF found = {} THEN Len(lines) + 1
        ELSE CHOOSE j \in found : \A k \in found : j <= k

KeyChars == WordChars \cup {"-"}

\* the offset in the line of the colon that ends a plain key starting at col, or -1
KeyColon(line, col) ==
    LET colon == RunEnd(line, col, KeyChars)
    IN  IF /\ CharAt(line, col) \in WordChars
           /\ CharAt(line, colon) = ":"
           /\ CharAt(line, colon + 1) \in {" ", ""}
        THEN colon ELSE 0 - 1

IsSeqItem(line, col) == CharAt(line, col) = "-" /\ CharAt(line, col + 1) \in {" ", ""}

\* the text of a plain scalar that starts at col: up to a comment, trailing blanks off
PlainText(line, col) ==
    LET hash == IndexOfFrom(line, " #", col)
        raw == IF hash < 0 THEN SubstringFrom(line, col) ELSE Substring(line, col, hash)
        keep == {k \in 1..Len(raw) : SubSeq(raw, k, k) \notin BlankChars}
    IN  IF keep = {} THEN ""
        ELSE SubSeq(raw, 1, CHOOSE k \in keep : \A m \in keep : m <= k)

\* typeof of the value a plain scalar resolves to (core schema)
PlainTypeof(plain) ==
    IF plain \in {"true", "false", "True", "False", "TRUE", "FALSE"} THEN "boolean"
    ELSE IF plain \in {"null", "Null", "NULL", "~"} THEN "object"
    ELSE IF CharsOf(plain) \subseteq CharsOf(DecimalDigits) THEN "number"
    ELSE "string"

\* a one-line plain scalar at col of line i, the value of an entry indented by n:
\* plain is its text, follow the next significant line
PlainScalarOf(lines, i, col, n, plain, follow) ==
    IF CharAt(lines[i], col) \in {"@"} THEN NotParsed("malformed")
    ELSE IF CharAt(lines[i], col) \in {"[", "]", "{", "}", "&", "*", "!", "%", "'", "?", ",",
                                       "-", "+", ".", "|", ">", "\t"}
         THEN NotParsed("unsupported")
    ELSE IF CharAt(lines[i], col) \in CharsOf(DecimalDigits) /\ PlainTypeof(plain) # "number"
         THEN NotParsed("unsupported")
    ELSE IF IndexOf(plain, ": ") >= 0 \/ CharAt(plain, Len(plain) - 1) = ":"
         THEN NotParsed("malformed")
    ELSE IF follow <= Len(lines) /\ Indent(lines[follow]) > n
         THEN IF KeyColon(lines[follow], Indent(lines[follow])) >= 0
              THEN NotParsed("malformed") ELSE NotParsed("unsupported")
    ELSE Parsed(Scalar(plain, PlainTypeof(plain), LineStart(lines, i) + col,
                       LineStart(lines, i) + col + Len(plain)), i + 1)

PlainScalar(lines, i, col, n) ==
    PlainScalarOf(lines, i, col, n, PlainText(lines[i], col), NextSignificant(lines, i + 1))

\* a one-line double-quoted scalar at col of line i
QuotedScalar(lines, i, col, n) ==
    LET line == lines[i]
        close == IndexOfFrom(line, "\"", col + 1)
        rest == RunEnd(line, close + 1, BlankChars)
        start == LineStart(lines, i) + col
        follow == NextSignificant(lines, i + 1)
    IN  IF \/ close < 0
           \/ IndexOf(Substring(line, col + 1, close), "\\") >= 0
           \/ ~(rest = Len(line) \/ (CharAt(line, rest) = "#" /\ rest > close + 1))
           \/ (follow <= Len(lines) /\ Indent(lines[follow]) > n)
        THEN NotParsed("unsupported")
        ELSE Parsed(Scalar(Substring(line, col + 1, close), "string", start,
                           LineStart(lines, i) + close + 1), i + 1)

\* one step of the folding of a folded block scalar: acc is the value so far,
\* the pending separator and whether the previous line was more indented
FoldStep(acc, row) ==
    IF row.more
    THEN LET sep == IF acc.sep = " " THEN "\n"
                    ELSE IF ~acc.prevMoreIndented /\ acc.sep = "\n" THEN "\n\n"
                    ELSE acc.sep
         IN  [value |-> acc.value \o sep \o row.text, sep |-> "\n", prevMoreIndented |-> TRUE]
    ELSE IF row.text = ""
    THEN IF acc.sep = "\n"
         THEN [acc EXCEPT !.value = acc.value \o "\n"]
         ELSE [acc EXCEPT !.sep = "\n"]
    ELSE [value |-> acc.value \o acc.sep \o row.text, sep |-> " ", prevMoreIndented |-> FALSE]

RECURSIVE FoldRows(_, _, _)
FoldRows(rows, k, acc) ==
    IF k > Len(rows) THEN acc.value ELSE FoldRows(rows, k + 1, FoldStep(acc, rows[k]))

RECURSIVE Repeat(_, _)
Repeat(s, count) == IF count <= 0 THEN "" ELSE s \o Repeat(s, count - 1)

\* the greatest element of a non-empty set of numbers
Greatest(nums) == CHOOSE n \in nums : \A m \in nums : m <= n

\* the chomping indicator of the block scalar whose indicator is at col
Chomp(line, col) == IF CharAt(line, col + 1) \in {"-", "+"} THEN CharAt(line, col + 1) ELSE ""

\* a content line of a block scalar, its indentation trimIndent taken off
BlockRow(row, trimIndent) ==
    IF IsBlankLine(row) THEN [more |-> FALSE, text |-> ""]
    ELSE [more |-> Indent(row) > trimIndent \/ CharAt(row, trimIndent) = "\t",
          text |-> SubstringFrom(row, trimIndent)]

BlockRows(lines, first, last, trimIndent) ==
    [k \in 1..(last - first + 1) |-> BlockRow(lines[first + k - 1], trimIndent)]

BlockBody(folded, rows) ==
    IF folded
    THEN FoldRows(rows, 1, [value |-> "", sep |-> "", prevMoreIndented |-> FALSE])
    ELSE JoinLines([k \in 1..Len(rows) |-> rows[k].text])

\* the value: the leading blank lines, the content, the line breaks chomping keeps
BlockValue(chomp, leading, body, keptBreaks) ==
    leading \o body \o
       (IF chomp = "-" THEN ""
        ELSE IF chomp = "+" THEN Repeat("\n", Max(1, keptBreaks))
        ELSE "\n")

\* where the range of the block scalar ends
BlockEnd(text, lines, chomp, stop, last) ==
    IF chomp = "+" /\ stop <= Len(lines) THEN LineStart(lines, stop)
    ELSE IF chomp = "+" THEN Len(text)
    ELSE LineEnd(lines, last)

\* the block scalar of line i whose content is the lines first..last
BlockScalarNode(text, lines, i, col, first, trimIndent, stop, last) ==
    Parsed(Scalar(BlockValue(Chomp(lines[i], col),
                             Repeat("\n", first - i - 1),
                             BlockBody(CharAt(lines[i], col) = ">",
                                       BlockRows(lines, first, last, trimIndent)),
                             Cardinality({j \in last..(stop - 1) : j < Len(lines)})),
                  "string",
                  LineStart(lines, i) + col,
                  BlockEnd(text, lines, Chomp(lines[i], col), stop, last)),
           stop)

\* the block scalar of line i whose content starts on line first and stops before stop
BlockScalarUpTo(text, lines, i, col, n, nonBlank, first, trimIndent, stop) ==
    IF \E j \in (i + 1)..(stop - 1) : j <= Len(lines) /\ IsBlankLine(lines[j])
                /\ (Len(lines[j]) > trimIndent \/ Indent(lines[j]) # Len(lines[j]))
    THEN NotParsed("unsupported")
    ELSE IF stop <= Len(lines) /\ Indent(lines[stop]) > n /\ ~IsCommentLine(lines[stop])
    THEN NotParsed("malformed")
    ELSE BlockScalarNode(text, lines, i, col, first, trimIndent, stop,
                         Greatest({j \in nonBlank : j < stop}))

\* the block scalar of line i whose content starts on line first, indented by trimIndent
BlockScalarFrom(text, lines, i, col, n, nonBlank, first, trimIndent) ==
    IF trimIndent <= n
    THEN IF Chomp(lines[i], col) = "+" THEN NotParsed("unsupported")
         ELSE Parsed(Scalar("", "string", LineStart(lines, i) + col, LineEnd(lines, i)), i + 1)
    ELSE With({j \in nonBlank : j > first /\ Indent(lines[j]) < trimIndent},
              LAMBDA below :
                 BlockScalarUpTo(text, lines, i, col, n, nonBlank, first, trimIndent,
                                 IF below = {} THEN Len(lines) + 1 ELSE Least(below)))

\* the block scalar of line i, nonBlank being the lines after it that are not blank
BlockScalarOf(text, lines, i, col, n, headerRest, nonBlank) ==
    IF ~(\/ headerRest = Len(lines[i])
         \/ (CharAt(lines[i], headerRest) = "#"
                /\ headerRest > col + 1 + Len(Chomp(lines[i], col))))
    THEN NotParsed("unsupported")
    ELSE IF nonBlank = {}
    THEN IF Chomp(lines[i], col) = "+" THEN NotParsed("unsupported")
         ELSE Parsed(Scalar("", "string", LineStart(lines, i) + col, LineEnd(lines, i)), i + 1)
    ELSE BlockScalarFrom(text, lines, i, col, n, nonBlank, Least(nonBlank),
                         Indent(lines[Least(nonBlank)]))

\* a block scalar whose indicator (| or >) is at col of line i, the value of an
\* entry indented by n
BlockScalar(text, lines, i, col, n) ==
    BlockScalarOf(text, lines, i, col, n,
                  RunEnd(lines[i], col + 1 + Len(Chomp(lines[i], col)), BlankChars),
                  {j \in (i + 1)..Len(lines) : ~IsBlankLine(lines[j])})

\* the parser proper: kind is "value", "map", "seq" or "node"
RECURSIVE Parse(_, _, _, _, _, _)

\* the value that starts after col on line i; the entry it belongs to is indented by n
ParseValueOf(text, lines, i, col, n, at, follow) ==
    IF at = Len(lines[i]) \/ (CharAt(lines[i], at) = "#" /\ at > col)
    THEN \* nothing on the line: a nested block node, or null
         IF follow <= Len(lines) /\ Indent(lines[follow]) > n
         THEN Parse("node", text, lines, follow, 0, Indent(lines[follow]))
         ELSE IF follow <= Len(lines) /\ Indent(lines[follow]) = n
                 /\ IsSeqItem(lines[follow], n) /\ ~IsSeqItem(lines[i], n)
         THEN NotParsed("unsupported")
         ELSE Parsed(Scalar("", "object", LineStart(lines, i) + Len(lines[i]),
                            LineStart(lines, i) + Len(lines[i])), i + 1)
    ELSE IF CharAt(lines[i], at) \in {"|", ">"} THEN BlockScalar(text, lines, i, at, n)
    ELSE IF CharAt(lines[i], at) = "\"" THEN QuotedScalar(lines, i, at, n)
    ELSE PlainScalar(lines, i, at, n)

ParseValue(text, lines, i, col, n) ==
    ParseValueOf(text, lines, i, col, n, RunEnd(lines[i], col, {" "}),
                 NextSignificant(lines, i + 1))

\* line i with the "- " of its sequence item at col blanked: the item's own indentation
Undash(lines, i, col) ==
    [lines EXCEPT ![i] = Substring(lines[i], 0, col) \o " " \o SubstringFrom(lines[i], col + 1)]

\* an item put before the items parsed after it
Prepend(item, rest) ==
    IF rest.status # "ok" THEN rest
    ELSE [status |-> "ok", node |-> <<item>> \o rest.node, next |-> rest.next]

\* the items parsed, as a map node
AsMap(items) == IF items.status # "ok" THEN items ELSE Parsed(YAMLMap(items.node), items.next)

\* the items parsed, as a sequence node
AsSeq(items) == IF items.status # "ok" THEN items ELSE Parsed(YAMLSeq(items.node), items.next)

\* the key of the entry of line i, indented by n, with the value parsed for it
KeyedPair(lines, i, n, value) ==
    Pair(Scalar(Substring(lines[i], n, KeyColon(lines[i], n)), "string",
                LineStart(lines, i) + n, LineStart(lines, i) + KeyColon(lines[i], n)),
         value)

\* the pairs of a block map indented by n: pair, then what line follow starts
MapItemsAfter(text, lines, n, pair, follow) ==
    IF follow > Len(lines) \/ Indent(lines[follow]) < n
    THEN [status |-> "ok", node |-> <<pair>>, next |-> follow]
    ELSE IF Indent(lines[follow]) > n \/ IsSeqItem(lines[follow], n)
    THEN NotParsed("malformed")
    ELSE Prepend(pair, Parse("map", text, lines, follow, 0, n))

\* the pairs of a block map indented by n, the value of its entry on line i parsed
MapItemsFrom(text, lines, i, n, value) ==
    IF value.status # "ok" THEN value
    ELSE MapItemsAfter(text, lines, n, KeyedPair(lines, i, n, value.node),
                       NextSignificant(lines, value.next))

\* the pairs of a block map indented by n, from line i (an entry of it) on
ParseMapItems(text, lines, i, n) ==
    IF KeyColon(lines[i], n) < 0
    THEN IF IndexOf(lines[i], ": ") >= 0 \/ CharAt(lines[i], Len(lines[i]) - 1) = ":"
            \/ CharAt(lines[i], n) \notin WordChars \cup {"@"}
         THEN NotParsed("unsupported") ELSE NotParsed("malformed")
    ELSE MapItemsFrom(text, lines, i, n,
                      Parse("value", text, lines, i, KeyColon(lines[i], n) + 1, n))

\* the items of a block sequence indented by n: node, then what line follow starts
SeqItemsAfter(text, lines, n, node, follow) ==
    IF follow > Len(lines) \/ Indent(lines[follow]) < n
    THEN [status |-> "ok", node |-> <<node>>, next |-> follow]
    ELSE IF Indent(lines[follow]) > n \/ ~IsSeqItem(lines[follow], n)
    THEN NotParsed("malformed")
    ELSE Prepend(node, Parse("seq", text, lines, follow, 0, n))

\* the items of a block sequence indented by n, its item on line i parsed
SeqItemsFrom(text, lines, n, item) ==
    IF item.status # "ok" THEN item
    ELSE SeqItemsAfter(text, lines, n, item.node, NextSignificant(lines, item.next))

\* the item of a block sequence indented by n that line i starts
ParseSeqItem(text, lines, i, n, at) ==
    IF KeyColon(lines[i], at) >= 0
    THEN AsMap(Parse("map", text, Undash(lines, i, n), i, 0, at))
    ELSE IF IsSeqItem(lines[i], at) THEN NotParsed("unsupported")
    ELSE Parse("value", text, lines, i, n + 1, n)

\* the items of a block sequence indented by n, from line i (an item of it) on
ParseSeqItems(text, lines, i, n) ==
    SeqItemsFrom(text, lines, n,
                 ParseSeqItem(text, lines, i, n, RunEnd(lines[i], n + 1, {" "})))

\* the block node whose first line is line i, indented by n
ParseNode(text, lines, i, n) ==
    IF CharAt(lines[i], n) = "\t" \/ StartsWithAt(lines[i], "---", n)
            \/ StartsWithAt(lines[i], "...", n)
    THEN NotParsed("unsupported")
    ELSE IF IsSeqItem(lines[i], n) THEN AsSeq(Parse("seq", text, lines, i, 0, n))
    ELSE AsMap(Parse("map", text, lines, i, 0, n))

Parse(kind, text, lines, i, col, n) ==
    IF kind = "value" THEN ParseValue(text, lines, i, col, n)
    ELSE IF kind = "map" THEN ParseMapItems(text, lines, i, n)
    ELSE IF kind = "seq" THEN ParseSeqItems(text, lines, i, n)
    ELSE ParseNode(text, lines, i, n)

\* the document whose root node is parsed: nothing but comments may follow it
DocumentOf(lines, root) ==
    IF root.status # "ok" THEN [status |-> root.status, contents |-> Null]
    ELSE IF NextSignificant(lines, root.next) <= Len(lines)
    THEN [status |-> "malformed", contents |-> Null]
    ELSE [status |-> "ok", contents |-> root.node]

\* whether the document whose first significant line is line first is one scalar
IsRootScalar(lines, first) ==
    /\ KeyColon(lines[first], Indent(lines[first])) < 0
    /\ ~IsSeqItem(lines[first], Indent(lines[first]))
    /\ NextSignificant(lines, first + 1) > Len(lines)

\* the root node of a document whose first significant line is line first
ParseRoot(text, lines, first, rootScalar) ==
    Parse(IF rootScalar THEN "value" ELSE "node", text, lines, first,
          Indent(lines[first]), IF rootScalar THEN 0 - 1 ELSE Indent(lines[first]))

\* the document of the lines of a text
ParseLines(text, lines, first) ==
    IF first > Len(lines) THEN [status |-> "ok", contents |-> Null]
    ELSE DocumentOf(lines, ParseRoot(text, lines, first, IsRootScalar(lines, first)))

\* yaml.parseDocument(text): [status, contents]
parseDocument(text) ==
    With(SplitLines(text), LAMBDA lines : ParseLines(text, lines, NextSignificant(lines, 1)))

(***************************************************************************)
(* The structural pass and extractCodeBlocks                               *)
(***************************************************************************)

\* ScalarBlock, were the block to start where the range of the scalar starts
ScalarBlockFromRangeStart(text, value) ==
    CodeBlock(value.value,
              getLineNumber(text, value.range[1]),
              getLineNumber(text, value.range[2]),
              value.range[1],
              value.range[2])

\* the block pushed for a string scalar that is the value of a pair
ScalarBlock(text, value) ==
    LET range == value.range
        valueText == Substring(text, range[1], range[2])
        firstNewlineInValue == IndexOf(valueText, "\n")
        codeStartOffset == IF firstNewlineInValue >= 0
                           THEN range[1] + firstNewlineInValue + 1 ELSE range[1]
    IN  CodeBlock(value.value,
                  getLineNumber(text, codeStartOffset),
                  getLineNumber(text, range[2]),
                  codeStartOffset,
                  range[2])

RECURSIVE findCodeInNode(_, _)
RECURSIVE findCodeInItems(_, _, _)

\* for (const item of node.items || []) findCodeInNode(item, path), from item k on
findCodeInItems(text, items, k) ==
    IF k > Len(items) THEN <<>>
    ELSE findCodeInNode(text, items[k]) \o findCodeInItems(text, items, k + 1)

\* findCodeInNode, were a string scalar met outside a pair emitted as well
findCodeInNodeOfEveryScalar(text, node) ==
    IF node.kind = "YAMLMap" THEN findCodeInItems(text, node.items, 1)
    ELSE IF node.kind = "Pair"
    THEN (IF /\ node.value.kind = "Scalar"
             /\ node.value.typeofValue = "string"
             /\ looksLikeTypeScript(node.value.value)
          THEN <<ScalarBlock(text, node.value)>> ELSE <<>>)
         \o (IF node.value.kind \in {"YAMLMap", "YAMLSeq"}
             THEN findCodeInNode(text, node.value) ELSE <<>>)
    ELSE IF node.kind = "YAMLSeq" THEN findCodeInItems(text, node.items, 1)
    ELSE IF node.kind = "Scalar" /\ node.typeofValue = "string"
            /\ looksLikeTypeScript(node.value)
    THEN <<ScalarBlock(text, node)>>
    ELSE <<>>

\* the blocks the walk pushes below node, in the order of the pushes
findCodeInNode(text, node) ==
    IF node.kind = "YAMLMap" THEN findCodeInItems(text, node.items, 1)
    ELSE IF node.kind = "Pair"
    THEN (IF /\ node.value.kind = "Scalar"
             /\ node.value.typeofValue = "string"
             /\ looksLikeTypeScript(node.value.value)
          THEN <<ScalarBlock(text, node.value)>> ELSE <<>>)
         \o (IF node.value.kind \in {"YAMLMap", "YAMLSeq"}
             THEN findCodeInNode(text, node.value) ELSE <<>>)
    ELSE IF node.kind = "YAMLSeq" THEN findCodeInItems(text, node.items, 1)
    ELSE <<>>

\* extractCodeBlocks, were the regex pass run after the walk as well
extractCodeBlocksWithBothPasses(text) ==
    With(parseDocument(text),
         LAMBDA parsed :
            (IF parsed.status = "ok" THEN findCodeInNode(text, parsed.contents) ELSE <<>>)
                \o extractCodeBlocksWithRegex(text))

\* try { parse and walk } catch { blocks.push(...this.extractCodeBlocksWithRegex(text)) }
extractCodeBlocks(text) ==
    With(parseDocument(text),
         LAMBDA parsed :
            IF parsed.status = "ok" THEN findCodeInNode(text, parsed.contents)
            ELSE extractCodeBlocksWithRegex(text))

\* the array blocks of extractCodeBlocks when something in the try block raises
\* after the walk has pushed the first pushed of the blocks it finds: the catch
\* pushes the blocks of the regex pass onto the same array
blocksAfterRaise(found, pushed, fallback) == SubSeq(found, 1, pushed) \o fallback

(***************************************************************************)
(* Diagnostics: the TypeScript side, the editor side, the translation      *)
(*                                                                         *)
(* A TypeScript diagnostic is [hasFile, hasStart, start, length, category, *)
(* code, messageText]; messageText is a chain [messageText, next], a plain *)
(* string being the chain with an empty next.  An editor diagnostic is     *)
(* [range, message, severity, source, code].                               *)
(***************************************************************************)

\* new vscode.Position(line, character)
Position(line, character) == [line |-> line, character |-> character]

IsBefore(a, b) == a.line < b.line \/ (a.line = b.line /\ a.character < b.character)

\* new vscode.Range(start, end): the constructor puts the earlier position first
Range(start, end) ==
    IF IsBefore(end, start) THEN [start |-> end, end |-> start]
    ELSE [start |-> start, end |-> end]

\* new vscode.Diagnostic(range, message, severity), then .source and .code set
Diagnostic(range, message, severity, source, code) ==
    [range |-> range, message |-> message, severity |-> severity,
     source |-> source, code |-> code]

\* the offsets at which TypeScript starts a line of the source file
TsLineStarts(code) ==
    {0} \cup {i + 1 : i \in {j \in 0..(Len(code) - 1) :
                                \/ CharAt(code, j) = "\n"
                                \/ CharAt(code, j) = "\r" /\ CharAt(code, j + 1) # "\n"}}

\* ts.getLineAndCharacterOfPosition(sourceFile, position)
getLineAndCharacterOfPosition(code, position) ==
    LET before == {ls \in TsLineStarts(code) : ls <= position}
    IN  [line |-> Cardinality(before) - 1,
         character |-> position - (CHOOSE ls \in before : \A other \in before : other <= ls)]

\* ts.flattenDiagnosticMessageText(messageText, '\n'), at the given depth of a chain
RECURSIVE flattenChain(_, _)
RECURSIVE flattenKids(_, _, _)
flattenKids(kids, k, indent) ==
    IF k > Len(kids) THEN ""
    ELSE flattenChain(kids[k], indent) \o flattenKids(kids, k + 1, indent)

flattenChain(chain, indent) ==
    (IF indent > 0 THEN "\n" \o Repeat("  ", indent) ELSE "")
        \o chain.messageText \o flattenKids(chain.next, 1, indent + 1)

\* a message that is a plain string is the chain without a next
flattenDiagnosticMessageText(messageText) == flattenChain(messageText, 0)

\* the severity chosen for a ts.DiagnosticCategory
SeverityOf(category) ==
    IF category = "Error" THEN "Error"
    ELSE IF category = "Warning" THEN "Warning"
    ELSE "Information"

\* the indentation analyzeTypeScriptCode reads off the first line of the block:
\* lines[startLine].match(/^(\s*)/)[1].length, 0 when there is no such line
yamlIndentationOf(codeBlock, sourceText) ==
    LET lines == SplitLines(sourceText)
    IN  IF codeBlock.startLine < Len(lines)
        THEN RunEnd(lines[codeBlock.startLine + 1], 0, WhiteSpace)
        ELSE 0

\* the editor diagnostic made of one TypeScript diagnostic that has a file and a start
ConvertDiagnostic(codeBlock, yamlIndentation, tsDiag) ==
    LET start == getLineAndCharacterOfPosition(codeBlock.code, tsDiag.start)
        end == getLineAndCharacterOfPosition(codeBlock.code, tsDiag.start + tsDiag.length)
    IN  Diagnostic(Range(Position(codeBlock.startLine + start.line,
                                  start.character + yamlIndentation),
                         Position(codeBlock.startLine + end.line,
                                  end.character + yamlIndentation)),
                   flattenDiagnosticMessageText(tsDiag.messageText),
                   SeverityOf(tsDiag.category),
                   "TypeScript (in YAML)",
                   tsDiag.code)

\* the diagnostics before the first one without a file or a start
RECURSIVE LocatedPrefix(_)
LocatedPrefix(tsDiagnostics) ==
    IF tsDiagnostics = <<>> THEN <<>>
    ELSE IF Head(tsDiagnostics).hasFile /\ Head(tsDiagnostics).hasStart
    THEN <<Head(tsDiagnostics)>> \o LocatedPrefix(Tail(tsDiagnostics))
    ELSE <<>>

\* analyzeTypeScriptCode, were its loop to end at the first diagnostic it cannot
\* place
analyzeTypeScriptCodeUntilUnplaced(codeBlock, sourceText, tsDiagnostics) ==
    [k \in 1..Len(LocatedPrefix(tsDiagnostics)) |->
        ConvertDiagnostic(codeBlock, yamlIndentationOf(codeBlock, sourceText),
                          LocatedPrefix(tsDiagnostics)[k])]

\* analyzeTypeScriptCode(codeBlock, sourceUri, sourceText), given what the program
\* compiled from codeBlock.code reports: tsDiagnostics
analyzeTypeScriptCode(codeBlock, sourceText, tsDiagnostics) ==
    LET yamlIndentation == yamlIndentationOf(codeBlock, sourceText)
        located == SelectSeq(tsDiagnostics, LAMBDA tsDiag : tsDiag.hasFile /\ tsDiag.hasStart)
    IN  [k \in 1..Len(located) |-> ConvertDiagnostic(codeBlock, yamlIndentation, located[k])]

\* the diagnostic mapDiagnosticsToSource would make, were newDiag.source left as
\* the language server set it
MapDiagnosticUnstamped(codeBlock, diag) ==
    Diagnostic(Range(Position(codeBlock.startLine + diag.range.start.line,
                              diag.range.start.character),
                     Position(codeBlock.startLine + diag.range.end.line,
                              diag.range.end.character)),
               diag.message,
               diag.severity,
               diag.source,
               diag.code)

\* the diagnostic mapDiagnosticsToSource makes of one diagnostic of a virtual document
MapDiagnostic(codeBlock, diag) ==
    Diagnostic(Range(Position(codeBlock.startLine + diag.range.start.line,
                              diag.range.start.character),
                     Position(codeBlock.startLine + diag.range.end.line,
                              diag.range.end.character)),
               diag.message,
               diag.severity,
               "TypeScript (in YAML)",
               diag.code)

\* diagnostics.map(diag => ...) of mapDiagnosticsToSource
mappedDiagnostics(codeBlock, diagnostics) ==
    [k \in 1..Len(diagnostics) |-> MapDiagnostic(codeBlock, diagnostics[k])]

(***************************************************************************)
(* Bounds and inputs                                                       *)
(***************************************************************************)

\* the TypeScript diagnostics one compilation reports, at most
MaxTsDiagnostics == 1

\* the URIs one diagnostics-changed event names, at most
MaxEventUris == 2

\* the documents of the workspace, with their language ids
LanguageIdOf ==
    ("file:///a.yaml" :> "yaml") @@ ("file:///b.yml" :> "yml") @@ ("file:///notes.md" :> "markdown")

HostDocuments == DOMAIN LanguageIdOf

\* yamlscript-ts:<host path>.block<N>.ts
VirtualUri(host, n) ==
    "yamlscript-ts:" \o SubstringFrom(host, Len("file://")) \o ".block"
        \o CharAt(DecimalDigits, n) \o ".ts"

\* the URIs a diagnostics-changed event may name: virtual documents of two
\* documents of the workspace, and a document of the workspace itself
EventUris ==
    {VirtualUri("file:///a.yaml", 0), VirtualUri("file:///a.yaml", 1),
     VirtualUri("file:///b.yml", 0), "file:///a.yaml"}

\* the texts the documents of the workspace take
ScenarioA == "handler:\n  code: |\n    const x: number = \"y\";\n"

ScenarioB == "value: just a string\n"

ScenarioC == "first: |\n  let a: string = 1;\nsecond: >-\n  const b = a =>\n"

\* no YAML (the @ line): detection falls back to the regex pass
MarkedMalformed == "# typescript:\ncode: |\n  const x = 1;\n@\n"

HostTexts == {ScenarioA, ScenarioB, ScenarioC, MarkedMalformed}

\* the texts each document of the workspace takes
TextsOf ==
    ("file:///a.yaml" :> {ScenarioA, ScenarioB, ScenarioC})
        @@ ("file:///b.yml" :> {ScenarioA, ScenarioB})
        @@ ("file:///notes.md" :> {ScenarioA})

\* what the compiler may report for a piece of code
PlainMessage(text) == [messageText |-> text, next |-> <<>>]

TsDiagnostic(hasFile, hasStart, start, length, category, code, messageText) ==
    [hasFile |-> hasFile, hasStart |-> hasStart, start |-> start, length |-> length,
     category |-> category, code |-> code, messageText |-> messageText]

TsDiagnosticsFor(code) ==
    {TsDiagnostic(TRUE, TRUE, Min(6, Len(code)), 1, "Error", 2322,
                  PlainMessage("Type 'string' is not assignable to type 'number'.")),
     TsDiagnostic(TRUE, TRUE, 0, Len(code), "Warning", 6133,
                  [messageText |-> "'x' is declared but never used.",
                   next |-> <<PlainMessage("Remove the declaration.")>>])}

SeqsUpTo(S, n) == UNION {[1..k -> S] : k \in 0..n}

\* one report per block of a detection pass
EngineRuns(codeBlocks) ==
    {run \in [1..Len(codeBlocks) ->
                 UNION {SeqsUpTo(TsDiagnosticsFor(codeBlocks[k].code), MaxTsDiagnostics) :
                           k \in 1..Len(codeBlocks)}] :
        \A k \in 1..Len(codeBlocks) :
            run[k] \in SeqsUpTo(TsDiagnosticsFor(codeBlocks[k].code), MaxTsDiagnostics)}

\* what the language server may have published for a virtual document
PublishedDiagnostics ==
    {<<>>,
     <<Diagnostic(Range(Position(0, 6), Position(0, 7)), "Type mismatch.", "Error", "ts", 2322)>>}

\* the blocks detected in each text of the workspace
BlocksOf == [text \in HostTexts |-> extractCodeBlocks(text)]

(***************************************************************************)
(* Maps                                                                    *)
(***************************************************************************)

EmptyMap == [k \in {} |-> k]

MapHas(map, key) == key \in DOMAIN map

MapSet(map, key, value) ==
    [k \in DOMAIN map \cup {key} |-> IF k = key THEN value ELSE map[k]]

MapDelete(map, key) == [k \in DOMAIN map \ {key} |-> map[k]]

(***************************************************************************)
(* State                                                                   *)
(***************************************************************************)

VARIABLES
    documents,             \* YamlTypeScriptVirtualDocumentProvider.documents
    fired,                 \* the URIs onDidChangeEmitter has fired, in order
    diagnosticCollection,  \* YamlTypeScriptManager.diagnosticCollection
    documentToVirtualMap,  \* YamlTypeScriptManager.documentToVirtualMap
    virtualToSourceMap,    \* YamlTypeScriptManager.virtualToSourceMap
    phase,                 \* per document: the kind of its latest notification
    lastText,              \* per document: the text of its latest detection pass
    lastRun,               \* per document: the compiler reports of that pass
    closedWithDiagnostics, \* per document: whether its latest close found diagnostics
    input,                 \* the argument a function is applied to
    output                 \* the function applied last, and its result

vars == <<documents, fired, diagnosticCollection, documentToVirtualMap,
          virtualToSourceMap, phase, lastText, lastRun, closedWithDiagnostics,
          input, output>>

manager == <<documents, fired, diagnosticCollection, documentToVirtualMap,
             virtualToSourceMap>>

history == <<phase, lastText, lastRun, closedWithDiagnostics>>

NoInput == [kind |-> "none"]

NoOutput == [fn |-> "none"]

\* the state the constructor of YamlTypeScriptManager leaves, no document being open
Constructed ==
    /\ documents = EmptyMap
    /\ fired = <<>>
    /\ diagnosticCollection = EmptyMap
    /\ documentToVirtualMap = EmptyMap
    /\ virtualToSourceMap = EmptyMap
    /\ phase = [d \in HostDocuments |-> "unwatched"]
    /\ lastText = [d \in HostDocuments |-> ""]
    /\ lastRun = [d \in HostDocuments |-> <<>>]
    /\ closedWithDiagnostics = [d \in HostDocuments |-> FALSE]

Init == Constructed /\ input = NoInput /\ output = NoOutput

\* diagnosticCollection.get(uri) || []
DiagnosticsOf(collection, uri) == IF MapHas(collection, uri) THEN collection[uri] ELSE <<>>

(***************************************************************************)
(* The handlers                                                            *)
(***************************************************************************)

\* isYamlDocument, were the language of the document not looked at
isYamlDocumentWhateverLanguage(doc) == LanguageIdOf[doc] = LanguageIdOf[doc]

isYamlDocument(doc) == LanguageIdOf[doc] = "yaml" \/ LanguageIdOf[doc] = "yml"

\* allDiagnostics of updateDocument: the diagnostics of the blocks, pushed block by block
RECURSIVE allDiagnosticsFrom(_, _, _, _)
allDiagnosticsFrom(text, codeBlocks, run, k) ==
    IF k > Len(codeBlocks) THEN <<>>
    ELSE analyzeTypeScriptCode(codeBlocks[k], text, run[k])
            \o allDiagnosticsFrom(text, codeBlocks, run, k + 1)

\* the reports the compiler may give for the blocks of a text of the workspace
RunsOf == [text \in HostTexts |-> EngineRuns(BlocksOf[text])]

\* allDiagnostics for each text of the workspace and each report of the compiler
AllDiagnosticsOf ==
    [text \in HostTexts |->
        [run \in RunsOf[text] |-> allDiagnosticsFrom(text, BlocksOf[text], run, 1)]]

\* updateDocument without its "Clear old diagnostics" step
updatedCollectionWithoutDelete(collection, uri, allDiagnostics) ==
    IF Len(allDiagnostics) > 0 THEN MapSet(collection, uri, allDiagnostics) ELSE collection

\* the collection updateDocument leaves: the old entry deleted, the new one set
\* when there is a diagnostic at all
updatedCollection(collection, uri, allDiagnostics) ==
    IF Len(allDiagnostics) > 0
    THEN MapSet(MapDelete(collection, uri), uri, allDiagnostics)
    ELSE MapDelete(collection, uri)

\* updateDocument, were it to hand each block to the provider without recording
\* which document the virtual document is of
documentsAfterUnrecordedUpdate(table, doc, codeBlocks) ==
    [u \in DOMAIN table \cup {VirtualUri(doc, k - 1) : k \in 1..Len(codeBlocks)} |->
        IF \E k \in 1..Len(codeBlocks) : u = VirtualUri(doc, k - 1)
        THEN codeBlocks[CHOOSE k \in 1..Len(codeBlocks) : u = VirtualUri(doc, k - 1)].code
        ELSE table[u]]

\* the provider's table as updateDocument leaves it: it does not touch the provider
documentsAfterUpdate(table, doc, codeBlocks) == table

updateDocument(doc, text, run) ==
    IF ~isYamlDocument(doc) THEN UNCHANGED manager
    ELSE /\ diagnosticCollection' =
                updatedCollection(diagnosticCollection, doc, AllDiagnosticsOf[text][run])
         /\ documents' = documentsAfterUpdate(documents, doc, BlocksOf[text])
         /\ UNCHANGED <<fired, documentToVirtualMap, virtualToSourceMap>>

\* the URIs cleanupDocument unregisters: documentToVirtualMap.get(doc)
ownedVirtualUris(doc2virtual, doc) ==
    IF MapHas(doc2virtual, doc)
    THEN {doc2virtual[doc][k] : k \in 1..Len(doc2virtual[doc])}
    ELSE {}

\* the provider's table after cleanupDocument: deleteDocument for every owned URI
documentsAfterCleanup(table, doc2virtual, doc) ==
    [u \in DOMAIN table \ ownedVirtualUris(doc2virtual, doc) |-> table[u]]

\* virtualToSourceMap after cleanupDocument
virtualToSourceAfterCleanup(virtual2source, doc2virtual, doc) ==
    [u \in DOMAIN virtual2source \ ownedVirtualUris(doc2virtual, doc) |-> virtual2source[u]]

\* cleanupDocument without its "Clear diagnostics" step
collectionLeftAsIs(collection, uri) == collection

\* the collection cleanupDocument leaves
cleanedCollection(collection, uri) == MapDelete(collection, uri)

cleanupDocument(doc) ==
    /\ documents' = documentsAfterCleanup(documents, documentToVirtualMap, doc)
    /\ virtualToSourceMap' =
            virtualToSourceAfterCleanup(virtualToSourceMap, documentToVirtualMap, doc)
    /\ documentToVirtualMap' = MapDelete(documentToVirtualMap, doc)
    /\ diagnosticCollection' = cleanedCollection(diagnosticCollection, doc)
    /\ UNCHANGED fired

\* the collection mapDiagnosticsToSource leaves
mapDiagnosticsToSource(collection, sourceUri, codeBlock, diagnostics) ==
    MapSet(collection, sourceUri,
           DiagnosticsOf(collection, sourceUri) \o mappedDiagnostics(codeBlock, diagnostics))

\* whether handleDiagnosticChanges maps the diagnostics of uriStr
IsOwnedVirtual(virtual2source, uriStr) ==
    StartsWithAt(uriStr, "yamlscript-ts:", 0) /\ MapHas(virtual2source, uriStr)

\* the document a virtual URI names
HostOfVirtual(uriStr) ==
    CHOOSE host \in HostDocuments :
        StartsWithAt(uriStr, "yamlscript-ts:" \o SubstringFrom(host, Len("file://")) \o ".block", 0)

\* handleDiagnosticChanges without its "if (mapping)" test: the diagnostics of any
\* virtual URI are mapped, to the document the URI names when no mapping is held
RECURSIVE handleDiagnosticChangesUnmapped(_, _, _, _, _)
handleDiagnosticChangesUnmapped(collection, virtual2source, uris, published, k) ==
    IF k > Len(uris) THEN collection
    ELSE handleDiagnosticChangesUnmapped(
            IF ~StartsWithAt(uris[k], "yamlscript-ts:", 0) THEN collection
            ELSE IF MapHas(virtual2source, uris[k])
            THEN mapDiagnosticsToSource(collection, virtual2source[uris[k]].sourceUri,
                                        virtual2source[uris[k]].codeBlock, published[uris[k]])
            ELSE mapDiagnosticsToSource(collection, HostOfVirtual(uris[k]),
                                        CodeBlock("", 0, 0, 0, 0), published[uris[k]]),
            virtual2source, uris, published, k + 1)

\* the collection handleDiagnosticChanges leaves: for (const uri of event.uris),
\* from the k-th on; published is vscode.languages.getDiagnostics
RECURSIVE handleDiagnosticChangesFrom(_, _, _, _, _)
handleDiagnosticChangesFrom(collection, virtual2source, uris, published, k) ==
    IF k > Len(uris) THEN collection
    ELSE handleDiagnosticChangesFrom(
            IF IsOwnedVirtual(virtual2source, uris[k])
            THEN mapDiagnosticsToSource(collection, virtual2source[uris[k]].sourceUri,
                                        virtual2source[uris[k]].codeBlock, published[uris[k]])
            ELSE collection,
            virtual2source, uris, published, k + 1)

handleDiagnosticChanges(uris, published) ==
    /\ diagnosticCollection' =
            handleDiagnosticChangesFrom(diagnosticCollection, virtualToSourceMap,
                                        uris, published, 1)
    /\ UNCHANGED <<documents, fired, documentToVirtualMap, virtualToSourceMap>>

(***************************************************************************)
(* The notifications of the editor                                         *)
(***************************************************************************)

\* a document is open from its open notification to its close notification
IsOpen(doc) == phase[doc] = "updated"

\* the compiler runs on the blocks of YAML documents only
RunsFor(doc, text) == IF isYamlDocument(doc) THEN RunsOf[text] ELSE {<<>>}

Notified(doc, text, run) ==
    /\ phase' = [phase EXCEPT ![doc] = "updated"]
    /\ lastText' = [lastText EXCEPT ![doc] = text]
    /\ lastRun' = [lastRun EXCEPT ![doc] = run]
    /\ closedWithDiagnostics' = [closedWithDiagnostics EXCEPT ![doc] = FALSE]

\* vscode.workspace.onDidOpenTextDocument(doc => this.updateDocument(doc)); the
\* constructor does the same for each document that is open already
DidOpenTextDocument ==
    \E doc \in HostDocuments : \E text \in TextsOf[doc] : \E run \in RunsFor(doc, text) :
        /\ ~IsOpen(doc)
        /\ updateDocument(doc, text, run)
        /\ Notified(doc, text, run)
        /\ UNCHANGED <<input, output>>

\* vscode.workspace.onDidChangeTextDocument(e => this.updateDocument(e.document))
DidChangeTextDocument ==
    \E doc \in HostDocuments : \E text \in TextsOf[doc] : \E run \in RunsFor(doc, text) :
        /\ IsOpen(doc)
        /\ updateDocument(doc, text, run)
        /\ Notified(doc, text, run)
        /\ UNCHANGED <<input, output>>

\* vscode.workspace.onDidCloseTextDocument(doc => this.cleanupDocument(doc))
DidCloseTextDocument ==
    \E doc \in HostDocuments :
        /\ IsOpen(doc)
        /\ cleanupDocument(doc)
        /\ phase' = [phase EXCEPT ![doc] = "closed"]
        /\ lastRun' = [lastRun EXCEPT ![doc] = <<>>]
        /\ closedWithDiagnostics' =
                [closedWithDiagnostics EXCEPT
                    ![doc] = DiagnosticsOf(diagnosticCollection, doc) # <<>>]
        /\ UNCHANGED <<lastText, input, output>>

\* vscode.languages.onDidChangeDiagnostics(e => this.handleDiagnosticChanges(e))
DidChangeDiagnostics ==
    \E uris \in SeqsUpTo(EventUris, MaxEventUris) \ {<<>>} :
        \E diagnostics \in PublishedDiagnostics :
            /\ handleDiagnosticChanges(uris, [u \in EventUris |-> diagnostics])
            /\ UNCHANGED <<history, input, output>>

Next ==
    \/ DidOpenTextDocument
    \/ DidChangeTextDocument
    \/ DidCloseTextDocument
    \/ DidChangeDiagnostics

Spec == Init /\ [][Next]_vars

(***************************************************************************)
(* The detection, applied to texts                                         *)
(***************************************************************************)

\* the texts the detection is applied to, at most this many pieces each
MaxPieces == 3

\* the pieces the texts are put together from
TextPieces ==
    {"code: |\n  const x = 1;\n",
     "# typescript:\n",
     "utils: >-\n  let y: number\n",
     "@\n",
     "name: app\n",
     "outer:\n  script: |\n    x => 1\n",
     "- run: |\n    a<b>\n",
     "code: |\n  \n"}

\* the texts of count pieces, no piece twice (a key is not repeated in a map)
RECURSIVE TextsOfPieces(_, _)
TextsOfPieces(pieces, count) ==
    IF count = 0 THEN {""}
    ELSE UNION {{piece \o rest : rest \in TextsOfPieces(pieces \ {piece}, count - 1)} :
                    piece \in pieces}

\* the texts the YAML parser of the model covers
DetectTexts ==
    {text \in UNION {TextsOfPieces(TextPieces, count) : count \in 0..MaxPieces} :
        parseDocument(text).status # "unsupported"}

\* the documents of one key with a code-ish name and a block scalar, literal or
\* folded, with each chomping indicator, whose value passes the heuristic
SimpleTexts ==
    {key \o ": " \o indicator \o chomping \o "\n" \o body :
        key \in {"code", "script", "myScript"}, indicator \in {"|", ">"},
        chomping \in {"", "-", "+"},
        body \in {"  const x = 1;\n", "  let a\n  let b\n", "    x => 1\n"}}

\* the pieces of code the heuristic is applied to, at most this many tokens each
MaxTokens == 3

CodeTokens == {"let", "x", " ", ":", "any", "=", ">", "<", "\n", "import x ", "from"}

RECURSIVE StringsOfTokens(_, _)
StringsOfTokens(tokens, count) ==
    IF count = 0 THEN {""}
    ELSE {token \o rest : token \in tokens, rest \in StringsOfTokens(tokens, count - 1)}

CodeStrings == UNION {StringsOfTokens(CodeTokens, count) : count \in 0..MaxTokens}

\* the blocks dedentCode is applied to, at most this many lines each
MaxLines == 2

\* lines as the group of the two patterns captures them, and lines without the
\* leading blank
IndentedLines == {"", " ", "  ", " x", "  x", "\tx", "x"}

RECURSIVE LinesJoined(_, _)
LinesJoined(lines, count) ==
    IF count = 1 THEN lines
    ELSE {line \o "\n" \o rest : line \in lines, rest \in LinesJoined(lines, count - 1)}

IndentedCodes == UNION {LinesJoined(IndentedLines, count) : count \in 1..MaxLines}

\* texts with strings like embedded code outside the value of a pair: as an
\* item of a sequence, as the root of the document, as a key
WalkTexts ==
    { "- const x = 1\n",
      "let x = 1\n",
      "- |\n  let y: number\n",
      "items:\n  - const x = 1\n  - run: |\n      a<b>\n",
      "let: x => 1\n",
      "run: x => 1\ncode: |\n  let y: number\n" }

DetectInit ==
    /\ Constructed
    /\ input \in {[kind |-> "text", text |-> text] :
                        text \in DetectTexts \cup SimpleTexts \cup WalkTexts}
                    \cup {[kind |-> "code", text |-> code] : code \in CodeStrings}
                    \cup {[kind |-> "indented", text |-> code] : code \in IndentedCodes}
    /\ output = NoOutput

\* this.extractCodeBlocks(text)
RunExtractCodeBlocks ==
    /\ input.kind = "text"
    /\ output' = [fn |-> "extractCodeBlocks", value |-> extractCodeBlocks(input.text)]
    /\ UNCHANGED <<manager, history, input>>

\* this.extractCodeBlocks(text), something raising in its try block after the
\* parse: console.log or a property of a node of the yaml package
RunExtractCodeBlocksRaising ==
    \E parsed \in {parseDocument(input.text)} :
        /\ input.kind = "text"
        /\ parsed.status = "ok"
        /\ \E found \in {findCodeInNode(input.text, parsed.contents)},
              fallback \in {extractCodeBlocksWithRegex(input.text)} :
              \E pushed \in 0..Len(found) :
                 output' = [fn |-> "extractCodeBlocks, raising", pushed |-> pushed,
                            value |-> blocksAfterRaise(found, pushed, fallback)]
        /\ UNCHANGED <<manager, history, input>>

\* this.extractCodeBlocksWithRegex(text)
RunExtractCodeBlocksWithRegex ==
    /\ input.kind = "text"
    /\ output' = [fn |-> "extractCodeBlocksWithRegex",
                  value |-> extractCodeBlocksWithRegex(input.text)]
    /\ UNCHANGED <<manager, history, input>>

\* findCodeInNode(parsed.contents), of a text that parses
RunFindCodeInNode ==
    \E parsed \in {parseDocument(input.text)} :
        /\ input.kind = "text"
        /\ parsed.status = "ok"
        /\ output' = [fn |-> "findCodeInNode",
                      value |-> findCodeInNode(input.text, parsed.contents)]
        /\ UNCHANGED <<manager, history, input>>

\* this.looksLikeTypeScript(code)
RunLooksLikeTypeScript ==
    /\ input.kind = "code"
    /\ output' = [fn |-> "looksLikeTypeScript", value |-> looksLikeTypeScript(input.text)]
    /\ UNCHANGED <<manager, history, input>>

\* this.dedentCode(code)
RunDedentCode ==
    /\ input.kind = "indented"
    /\ output' = [fn |-> "dedentCode", value |-> dedentCode(input.text)]
    /\ UNCHANGED <<manager, history, input>>

DetectNext ==
    \/ RunExtractCodeBlocks
    \/ RunExtractCodeBlocksRaising
    \/ RunExtractCodeBlocksWithRegex
    \/ RunFindCodeInNode
    \/ RunLooksLikeTypeScript
    \/ RunDedentCode

DetectSpec == DetectInit /\ [][DetectNext]_vars

(***************************************************************************)
(* The translation of diagnostics, applied to blocks                       *)
(***************************************************************************)

\* the diagnostics a document of the workspace holds, at most, before one more
\* report is mapped to it
MaxHostDiagnostics == 2

\* the document the blocks are taken to be of
SourceUri == "file:///a.yaml"

\* a block of a text of the workspace; registered tells whether virtualToSourceMap
\* holds the virtual document of the block
TranslateInputs ==
    UNION {{[kind |-> "block", text |-> text, k |-> k, registered |-> registered] :
               k \in 1..Len(BlocksOf[text]), registered \in BOOLEAN} : text \in HostTexts}

TranslateInit ==
    /\ Constructed
    /\ input \in TranslateInputs
    /\ output = NoOutput

InputBlock == BlocksOf[input.text][input.k]

\* virtualToSourceMap, as the handler is applied to it
InputRegistered ==
    IF input.registered
    THEN VirtualUri(SourceUri, 0) :> [sourceUri |-> SourceUri, codeBlock |-> InputBlock]
    ELSE EmptyMap

\* the collection the handlers applied so far have left
CollectionSoFar ==
    IF output.fn \in {"mapDiagnosticsToSource", "handleDiagnosticChanges"}
    THEN output.value ELSE EmptyMap

\* a diagnostic of a category that is neither Error nor Warning
TsMessagesFor(code) ==
    {TsDiagnostic(TRUE, TRUE, 0, Min(5, Len(code)), "Message", 6133,
                  PlainMessage("'x' is declared but its value is never read."))}

\* this.analyzeTypeScriptCode(block, doc)
RunAnalyzeTypeScriptCode ==
    \E tsDiagnostics \in SeqsUpTo(TsDiagnosticsFor(InputBlock.code)
                                      \cup TsMessagesFor(InputBlock.code), MaxTsDiagnostics) :
        /\ output' = [fn |-> "analyzeTypeScriptCode", tsDiagnostics |-> tsDiagnostics,
                      value |-> analyzeTypeScriptCode(InputBlock, input.text, tsDiagnostics)]
        /\ UNCHANGED <<manager, history, input>>

\* this.mapDiagnosticsToSource(sourceUri, codeBlock, diagnostics)
RunMapDiagnosticsToSource ==
    \E diagnostics \in PublishedDiagnostics :
        /\ Len(DiagnosticsOf(CollectionSoFar, SourceUri)) < MaxHostDiagnostics
        /\ output' = [fn |-> "mapDiagnosticsToSource", diagnostics |-> diagnostics,
                      before |-> CollectionSoFar,
                      value |-> mapDiagnosticsToSource(CollectionSoFar, SourceUri,
                                                       InputBlock, diagnostics)]
        /\ UNCHANGED <<manager, history, input>>

\* this.handleDiagnosticChanges(event)
RunHandleDiagnosticChanges ==
    \E uris \in SeqsUpTo(EventUris, MaxEventUris) \ {<<>>} :
        \E diagnostics \in PublishedDiagnostics :
            /\ Len(DiagnosticsOf(CollectionSoFar, SourceUri)) < MaxHostDiagnostics
            /\ output' = [fn |-> "handleDiagnosticChanges", uris |-> uris,
                          diagnostics |-> diagnostics, before |-> CollectionSoFar,
                          value |-> handleDiagnosticChangesFrom(
                                        CollectionSoFar, InputRegistered, uris,
                                        [u \in EventUris |-> diagnostics], 1)]
            /\ UNCHANGED <<manager, history, input>>

TranslateNext ==
    \/ RunAnalyzeTypeScriptCode
    \/ RunMapDiagnosticsToSource
    \/ RunHandleDiagnosticChanges

TranslateSpec == TranslateInit /\ [][TranslateNext]_vars

(***************************************************************************)
(* One pass of updateDocument, the compiler failing or not                 *)
(***************************************************************************)

\* a block scalar indented by 8 whose code ends inside a function body, and a
\* one-line value after it
ScenarioD == "code: |\n        function f() {\nnext: const x = 1\n"

PassTexts == {ScenarioA, ScenarioB, ScenarioC, ScenarioD}

\* what the compiler may report for a piece of code: the diagnostics of
\* TsDiagnosticsFor, one at the end of the file, one without a file and one
\* without a start
EngineDiagnosticsFor(code) ==
    TsDiagnosticsFor(code) \cup
        {TsDiagnostic(TRUE, TRUE, Len(code), 0, "Error", 1005, PlainMessage("'}' expected.")),
         TsDiagnostic(FALSE, TRUE, 0, 0, "Error", 2318,
                      PlainMessage("Cannot find global type 'Array'.")),
         TsDiagnostic(TRUE, FALSE, 0, 0, "Message", 6059, PlainMessage("File is not under rootDir."))}

\* ts.createProgram / getSyntacticDiagnostics / getSemanticDiagnostics throw
Threw == [threw |-> TRUE, tsDiagnostics |-> <<>>]

\* they return
Reported(tsDiagnostics) == [threw |-> FALSE, tsDiagnostics |-> tsDiagnostics]

\* the compiler reports at most this many diagnostics in one pass, all blocks
\* together
MaxReported == 2

EngineOutcomes(code) ==
    {Threw} \cup {Reported(tsDiagnostics) :
                    tsDiagnostics \in SeqsUpTo(EngineDiagnosticsFor(code), MaxReported)}

\* the blocks detected in each text of a pass
PassBlocksOf == [text \in PassTexts |-> extractCodeBlocks(text)]

\* one outcome of the compiler per block of the text
\* one outcome for each block from the k-th on, with at most left diagnostics
\* reported in all
RECURSIVE OutcomesFrom(_, _, _)
OutcomesFrom(codeBlocks, k, left) ==
    IF k > Len(codeBlocks) THEN {<<>>}
    ELSE UNION {{<<outcome>> \o rest :
                    rest \in OutcomesFrom(codeBlocks, k + 1,
                                          left - Len(outcome.tsDiagnostics))} :
                outcome \in {o \in EngineOutcomes(codeBlocks[k].code) :
                                Len(o.tsDiagnostics) <= left}}

PassOutcomes(codeBlocks) == OutcomesFrom(codeBlocks, 1, MaxReported)

\* the diagnostics a.yaml has from an earlier pass
StaleDiagnostics ==
    <<Diagnostic(Range(Position(9, 0), Position(9, 1)), "Stale.", "Error", "TypeScript (in YAML)", 1)>>

PassInputs ==
    UNION {{[kind |-> "pass", text |-> text, outcomes |-> outcomes, stale |-> stale] :
               outcomes \in PassOutcomes(PassBlocksOf[text]), stale \in BOOLEAN} :
           text \in PassTexts}

PassInit ==
    /\ Constructed
    /\ input \in PassInputs
    /\ output = NoOutput

\* the for loop of updateDocument from the k-th block on: nothing catches what
\* analyzeTypeScriptCode throws, so the loop ends there and the exception escapes
RECURSIVE allDiagnosticsOrThrow(_, _, _, _, _)
allDiagnosticsOrThrow(text, codeBlocks, outcomes, k, allDiagnostics) ==
    IF k > Len(codeBlocks) THEN [escaped |-> FALSE, allDiagnostics |-> allDiagnostics]
    ELSE IF outcomes[k].threw THEN [escaped |-> TRUE, allDiagnostics |-> allDiagnostics]
    ELSE allDiagnosticsOrThrow(text, codeBlocks, outcomes, k + 1,
            allDiagnostics \o analyzeTypeScriptCode(codeBlocks[k], text,
                                                    outcomes[k].tsDiagnostics))

\* the collection updateDocument leaves, given how its loop ended: the entry is
\* deleted before the loop and set after it
collectionAfterLoop(collection, uri, loop) ==
    IF loop.escaped THEN [escaped |-> TRUE, collection |-> MapDelete(collection, uri)]
    ELSE [escaped |-> FALSE,
          collection |-> updatedCollection(collection, uri, loop.allDiagnostics)]

\* this.updateDocument(doc) for a.yaml
RunUpdateDocument ==
    \E before \in {IF input.stale THEN SourceUri :> StaleDiagnostics ELSE EmptyMap} :
        /\ output.fn = "none"
        /\ output' = [fn |-> "updateDocument", before |-> before,
                      value |-> collectionAfterLoop(before, SourceUri,
                                    allDiagnosticsOrThrow(input.text, PassBlocksOf[input.text],
                                                          input.outcomes, 1, <<>>))]
        /\ UNCHANGED <<manager, history, input>>

\* this.analyzeTypeScriptCode(block, doc.uri, text) for a block whose
\* compilation returns
RunAnalyzeBlock ==
    \E k \in 1..Len(PassBlocksOf[input.text]) :
        /\ output.fn = "none"
        /\ ~input.outcomes[k].threw
        /\ output' = [fn |-> "analyzeTypeScriptCode", k |-> k,
                      value |-> analyzeTypeScriptCode(PassBlocksOf[input.text][k], input.text,
                                                      input.outcomes[k].tsDiagnostics)]
        /\ UNCHANGED <<manager, history, input>>

PassNext ==
    \/ RunUpdateDocument
    \/ RunAnalyzeBlock

PassSpec == PassInit /\ [][PassNext]_vars

(***************************************************************************)
(* The provider of the virtual documents, operated on its own              *)
(*                                                                         *)
(* input.log is the sequence of the calls made so far, the last one being  *)
(* the call output is the result of.                                       *)
(***************************************************************************)

\* at most this many calls of the provider
MaxOperations == 3

ProviderUris == {VirtualUri("file:///a.yaml", 0), VirtualUri("file:///b.yml", 0)}

ProviderContents == {"", "const x = 1;", "let y: number"}

\* this.documents.get(uri.toString()) || ''
provideTextDocumentContent(table, uri) ==
    IF MapHas(table, uri) /\ table[uri] # "" THEN table[uri] ELSE ""

\* deleteDocument, were this.documents left as it is
deleteDocumentKeepingContent(table, uri) == table

\* this.documents.delete(uri.toString())
deleteDocument(table, uri) == MapDelete(table, uri)

Logged(call) == [kind |-> "provider", log |-> Append(input.log, call)]

ProviderInit ==
    /\ Constructed
    /\ input = [kind |-> "provider", log |-> <<>>]
    /\ output = NoOutput

\* provider.updateDocument(uri, content)
ProviderUpdateDocument ==
    \E uri \in ProviderUris : \E content \in ProviderContents :
        /\ Len(input.log) < MaxOperations
        /\ documents' = MapSet(documents, uri, content)
        /\ fired' = Append(fired, uri)
        /\ input' = Logged([op |-> "register", uri |-> uri, content |-> content])
        /\ output' = [fn |-> "provider.updateDocument", uri |-> uri]
        /\ UNCHANGED <<diagnosticCollection, documentToVirtualMap, virtualToSourceMap, history>>

\* provider.deleteDocument(uri)
ProviderDeleteDocument ==
    \E uri \in ProviderUris :
        /\ Len(input.log) < MaxOperations
        /\ documents' = deleteDocument(documents, uri)
        /\ input' = Logged([op |-> "unregister", uri |-> uri])
        /\ output' = [fn |-> "provider.deleteDocument", uri |-> uri]
        /\ UNCHANGED <<fired, diagnosticCollection, documentToVirtualMap, virtualToSourceMap,
                       history>>

\* provider.provideTextDocumentContent(uri)
ProviderProvideTextDocumentContent ==
    \E uri \in ProviderUris :
        /\ Len(input.log) < MaxOperations
        /\ input' = Logged([op |-> "read", uri |-> uri])
        /\ output' = [fn |-> "provider.provideTextDocumentContent", uri |-> uri,
                      value |-> provideTextDocumentContent(documents, uri)]
        /\ UNCHANGED <<manager, history>>

ProviderNext ==
    \/ ProviderUpdateDocument
    \/ ProviderDeleteDocument
    \/ ProviderProvideTextDocumentContent

ProviderSpec == ProviderInit /\ [][ProviderNext]_vars

(***************************************************************************)
(* Properties of the notifications                                         *)
(***************************************************************************)

RECURSIVE Concatenation(_)
Concatenation(seqs) ==
    IF Len(seqs) = 0 THEN <<>> ELSE Head(seqs) \o Concatenation(Tail(seqs))

\* whether a virtual URI is one of the blocks of a document
BelongsTo(uriStr, doc) ==
    StartsWithAt(uriStr, "yamlscript-ts:" \o SubstringFrom(doc, Len("file://")) \o ".block", 0)

\* the virtual documents of a document that the provider holds
RegisteredFor(doc) == {u \in DOMAIN documents : BelongsTo(u, doc)}

\* the translated diagnostics of the blocks of the latest pass over a document,
\* block by block
TranslatedPerBlock(doc) ==
    [k \in 1..Len(BlocksOf[lastText[doc]]) |->
        analyzeTypeScriptCode(BlocksOf[lastText[doc]][k], lastText[doc], lastRun[doc][k])]

C2_NothingLeftAfterClose ==
    \A doc \in HostDocuments :
        phase[doc] = "closed" =>
            /\ RegisteredFor(doc) = {}
            /\ ~MapHas(documentToVirtualMap, doc)
            /\ \A u \in DOMAIN virtualToSourceMap : virtualToSourceMap[u].sourceUri # doc
            /\ DiagnosticsOf(diagnosticCollection, doc) = <<>>

\* a document closed while it had diagnostics, and a document closed that was
\* never processed
C2_Witness ==
    /\ phase["file:///a.yaml"] = "closed"
    /\ closedWithDiagnostics["file:///a.yaml"]
    /\ phase["file:///notes.md"] = "closed"

\* C3: after the open or change notification of a YAML document whose text has N
\* blocks, the provider holds exactly N virtual documents of it, one per block,
\* each with the code of its block as content.
C3_OneVirtualDocumentPerBlock ==
    \A doc \in HostDocuments :
        isYamlDocument(doc) /\ phase[doc] = "updated" =>
            /\ Cardinality(RegisteredFor(doc)) = Len(BlocksOf[lastText[doc]])
            /\ \A k \in 1..Len(BlocksOf[lastText[doc]]) :
                    \E u \in RegisteredFor(doc) :
                        documents[u] = BlocksOf[lastText[doc]][k].code

\* the state held for a document: its diagnostics, its virtual documents with
\* their contents, its entry of documentToVirtualMap, the entries of
\* virtualToSourceMap that name it
HeldFor(doc) ==
    [diagnostics |-> DiagnosticsOf(diagnosticCollection, doc),
     virtualDocuments |-> [u \in RegisteredFor(doc) |-> documents[u]],
     owned |-> IF MapHas(documentToVirtualMap, doc) THEN <<documentToVirtualMap[doc]>> ELSE <<>>,
     mappings |-> [u \in {v \in DOMAIN virtualToSourceMap :
                              virtualToSourceMap[v].sourceUri = doc} |-> virtualToSourceMap[u]]]

\* C9, as stated: once the close notification of a document has been processed, no
\* later open, change or diagnostics notification changes the state held for it.
C9_ClosedIsTerminal ==
    [][\A doc \in HostDocuments : phase[doc] = "closed" => HeldFor(doc)' = HeldFor(doc)]_vars

\* C9, amended: the state held for a closed document stays as the close left it
\* for as long as the document stays closed, whatever the diagnostics notifications
\* and the notifications of other documents in between; the next open notification
\* of the document is processed as a first one is.
C9_ClosedUntilReopened ==
    [][\A doc \in HostDocuments :
            phase[doc] = "closed" /\ phase'[doc] = "closed" =>
                HeldFor(doc)' = HeldFor(doc)]_vars

\* a document closed after a pass that gave diagnostics, while another document is
\* open and has diagnostics
C9_Witness ==
    /\ phase["file:///a.yaml"] = "closed"
    /\ closedWithDiagnostics["file:///a.yaml"]
    /\ phase["file:///b.yml"] = "updated"
    /\ DiagnosticsOf(diagnosticCollection, "file:///b.yml") # <<>>
    /\ DiagnosticsOf(diagnosticCollection, "file:///a.yaml") = <<>>

\* the documents whose entry of documentToVirtualMap lists a virtual URI
OwnersOf(uriStr) ==
    {doc \in DOMAIN documentToVirtualMap :
        uriStr \in ownedVirtualUris(documentToVirtualMap, doc)}

\* C10: in every reachable state, every virtual document the provider holds occurs
\* in exactly one list of documentToVirtualMap, virtualToSourceMap maps it to that
\* same document, and that document is open and the block is one of its latest pass.
C10_NoOrphanedVirtualDocument ==
    \A u \in DOMAIN documents :
        /\ Cardinality(OwnersOf(u)) = 1
        /\ MapHas(virtualToSourceMap, u)
        /\ virtualToSourceMap[u].sourceUri \in OwnersOf(u)
        /\ phase[virtualToSourceMap[u].sourceUri] = "updated"
        /\ \E k \in 1..Len(BlocksOf[lastText[virtualToSourceMap[u].sourceUri]]) :
                BlocksOf[lastText[virtualToSourceMap[u].sourceUri]][k]
                    = virtualToSourceMap[u].codeBlock

\* a document closed after a pass that found blocks, and a document whose text was
\* changed from one with blocks to one without
C10_Witness ==
    /\ phase["file:///a.yaml"] = "closed"
    /\ BlocksOf[lastText["file:///a.yaml"]] # <<>>
    /\ closedWithDiagnostics["file:///a.yaml"]
    /\ phase["file:///b.yml"] = "updated"
    /\ BlocksOf[lastText["file:///b.yml"]] = <<>>
    /\ documents = EmptyMap

(***************************************************************************)
(* Properties of the detection                                             *)
(***************************************************************************)

\* the detection passes: the one that falls back, the regex pass, the walk of the tree
DetectionPasses == {"extractCodeBlocks", "extractCodeBlocksWithRegex", "findCodeInNode"}

\* C5: the ranges [startOffset, endOffset) of two blocks that one detection pass
\* returns, the structural pass or the regex pass, do not intersect; no region is
\* returned twice.
C5_BlocksDoNotOverlap ==
    output.fn \in DetectionPasses =>
        \A i \in 1..Len(output.value) : \A j \in 1..Len(output.value) :
            i < j =>
                \/ output.value[i].endOffset <= output.value[j].startOffset
                \/ output.value[j].endOffset <= output.value[i].startOffset

\* C6: the blocks one detection pass returns, the structural pass or the regex
\* pass, are in the order of the document: start offsets never decrease along
\* the list.
C6_BlocksInDocumentOrder ==
    output.fn \in DetectionPasses =>
        \A k \in 1..(Len(output.value) - 1) :
            output.value[k].startOffset <= output.value[k + 1].startOffset

(***************************************************************************)
(* Properties of the translation                                           *)
(***************************************************************************)

\* the first line of a piece of code that is not blank, counted from 0
FirstCodeLine(lines) ==
    IF \E j \in 1..Len(lines) : Len(Trim(lines[j])) > 0
    THEN (CHOOSE j \in 1..Len(lines) :
            /\ Len(Trim(lines[j])) > 0
            /\ \A i \in 1..(j - 1) : Len(Trim(lines[i])) = 0) - 1
    ELSE 0

\* the columns dedentation stripped from the lines of a block: what the line of
\* the document has in front, less what the line of the code has
StrippedColumns(hostLines, codeLines, startLine, first) ==
    IF startLine + first < Len(hostLines)
    THEN LeadingBlanks(hostLines[startLine + first + 1]) - LeadingBlanks(codeLines[first + 1])
    ELSE 0

indentWidth(codeBlock, sourceText) ==
    StrippedColumns(SplitLines(sourceText), SplitLines(codeBlock.code), codeBlock.startLine,
                    FirstCodeLine(SplitLines(codeBlock.code)))

\* toHost of a position of the code of a block
ToHost(codeBlock, width, local) ==
    Position(codeBlock.startLine + local.line, local.character + width)

ToHostRange(codeBlock, width, start, end) ==
    [start |-> ToHost(codeBlock, width, start), end |-> ToHost(codeBlock, width, end)]

\* C4: every diagnostic translated for a block, by analyzeTypeScriptCode or by
\* mapDiagnosticsToSource, starts and ends at line startLine + localLine and at
\* column localCol + indentWidth, indentWidth being the columns dedentation
\* stripped from the lines of the block.
C4_TranslatedToHostPosition ==
    /\ output.fn = "analyzeTypeScriptCode" =>
            \A k \in 1..Len(output.tsDiagnostics) :
                /\ k <= Len(output.value)
                /\ output.value[k].range =
                        ToHostRange(InputBlock, indentWidth(InputBlock, input.text),
                            getLineAndCharacterOfPosition(InputBlock.code,
                                                          output.tsDiagnostics[k].start),
                            getLineAndCharacterOfPosition(InputBlock.code,
                                output.tsDiagnostics[k].start + output.tsDiagnostics[k].length))
    /\ output.fn = "mapDiagnosticsToSource" =>
            \A k \in 1..Len(output.diagnostics) :
                \E h \in 1..Len(DiagnosticsOf(output.value, SourceUri)) :
                    /\ output.value[SourceUri][h].message = output.diagnostics[k].message
                    /\ output.value[SourceUri][h].range =
                            ToHostRange(InputBlock, indentWidth(InputBlock, input.text),
                                        output.diagnostics[k].range.start,
                                        output.diagnostics[k].range.end)

\* whether a diagnostics-changed event names the virtual document of the block
NamesOwned(uris) == \E k \in 1..Len(uris) : MapHas(InputRegistered, uris[k])

\* C7: the mapped diagnostics of a virtual document that is still owned replace
\* those its block had in the diagnostics of the document, and are not appended to
\* them: the document then has as many as were delivered, and delivering the same
\* ones once more leaves its diagnostics as they are.
C7_MappedDiagnosticsReplace ==
    output.fn = "handleDiagnosticChanges" /\ NamesOwned(output.uris) =>
        /\ Len(DiagnosticsOf(output.value, SourceUri)) = Len(output.diagnostics)
        /\ DiagnosticsOf(
                handleDiagnosticChangesFrom(output.value, InputRegistered, output.uris,
                                            [u \in EventUris |-> output.diagnostics], 1),
                SourceUri) = DiagnosticsOf(output.value, SourceUri)

\* C8: a diagnostics-changed notification that names no virtual document the
\* manager holds a mapping for is dropped: the diagnostics of every document are
\* what they were.
C8_UnownedUriIsDropped ==
    output.fn = "handleDiagnosticChanges" /\ ~NamesOwned(output.uris) =>
        \A doc \in HostDocuments :
            DiagnosticsOf(output.value, doc) = DiagnosticsOf(output.before, doc)

\* diagnostics published for the virtual document of a block that was never
\* registered, the document having diagnostics already
C8_Witness ==
    /\ output.fn = "handleDiagnosticChanges"
    /\ ~input.registered
    /\ output.uris = <<VirtualUri(SourceUri, 0)>>
    /\ output.diagnostics # <<>>
    /\ DiagnosticsOf(output.before, SourceUri) # <<>>
    /\ output.value = output.before

(***************************************************************************)
(* Properties of one pass of updateDocument                                *)
(***************************************************************************)

\* what each block of the pass contributes when a failure of the compiler is
\* caught for its block alone: nothing for a block whose compilation threw
ContributionPerBlock ==
    [k \in 1..Len(PassBlocksOf[input.text]) |->
        IF input.outcomes[k].threw THEN <<>>
        ELSE analyzeTypeScriptCode(PassBlocksOf[input.text][k], input.text,
                                   input.outcomes[k].tsDiagnostics)]

\* C11: when the analysis of one block throws during updateDocument, the failure
\* is caught for that block alone: the block contributes no diagnostic, the
\* document still gets the diagnostics of every other block of the pass, and no
\* exception escapes updateDocument.
C11_FailureCaughtPerBlock ==
    output.fn = "updateDocument" =>
        /\ ~output.value.escaped
        /\ DiagnosticsOf(output.value.collection, SourceUri)
                = Concatenation(ContributionPerBlock)

(***************************************************************************)
(* Further properties of the detection                                     *)
(***************************************************************************)

WordsOf(s) ==
    {SubSeq(s, a, b) : <<a, b>> \in
        {ends \in (1..Len(s)) \X (1..Len(s)) :
            /\ ends[1] <= ends[2]
            /\ \A i \in ends[1]..ends[2] : SubSeq(s, i, i) \in WordChars
            /\ ends[1] = 1 \/ SubSeq(s, ends[1] - 1, ends[1] - 1) \notin WordChars
            /\ ends[2] = Len(s) \/ SubSeq(s, ends[2] + 1, ends[2] + 1) \notin WordChars}}

\* s has needle at the 1-based position a
HasAt(s, needle, a) ==
    /\ a >= 1
    /\ a + Len(needle) - 1 <= Len(s)
    /\ SubSeq(s, a, a + Len(needle) - 1) = needle

\* no line break in s from position a to position b
SameLine(s, a, b) == \A i \in a..b : SubSeq(s, i, i) \notin {"\n", "\r"}

ContainsKeyword(s) ==
    WordsOf(s) \cap {"const", "let", "var", "function", "class", "interface", "type",
                     "enum", "namespace", "import", "export"} # {}

ContainsTypeAnnotation(s) ==
    \E a \in 1..Len(s) : \E b \in (a + 1)..Len(s) :
        /\ SubSeq(s, a, a) = ":"
        /\ \A i \in (a + 1)..(b - 1) : SubSeq(s, i, i) \in WhiteSpace
        /\ \E name \in {"string", "number", "boolean", "any", "void", "unknown", "never"} :
              HasAt(s, name, b)

ContainsArrow(s) == \E a \in 1..Len(s) : HasAt(s, "=>", a)

\* the word import, white space, and the word from later on that line
ContainsImportFrom(s) ==
    \E a \in 1..Len(s) : \E b \in (a + 7)..Len(s) :
        /\ HasAt(s, "import", a)
        /\ a = 1 \/ SubSeq(s, a - 1, a - 1) \notin WordChars
        /\ HasAt(s, "from", b)
        /\ SubSeq(s, b - 1, b - 1) \notin WordChars
        /\ b + 4 > Len(s) \/ SubSeq(s, b + 4, b + 4) \notin WordChars
        /\ \E rest \in (a + 7)..b :
              /\ \A i \in (a + 6)..(rest - 1) : SubSeq(s, i, i) \in WhiteSpace
              /\ SameLine(s, rest, b - 1)

ContainsAngleBrackets(s) ==
    \E a \in 1..Len(s) : \E b \in (a + 1)..Len(s) :
        /\ SubSeq(s, a, a) = "<"
        /\ SubSeq(s, b, b) = ">"
        /\ SameLine(s, a + 1, b - 1)

\* the five conditions, any of which makes a string embedded code
LikeEmbeddedCode(s) ==
    \/ ContainsKeyword(s)
    \/ ContainsTypeAnnotation(s)
    \/ ContainsArrow(s)
    \/ ContainsImportFrom(s)
    \/ ContainsAngleBrackets(s)

\* the string scalars that are the value of a pair, anywhere below node, in
\* document order
RECURSIVE PairStrings(_)
RECURSIVE PairStringsOfItems(_, _)

PairStringsOfItems(items, k) ==
    IF k > Len(items) THEN <<>>
    ELSE PairStrings(items[k]) \o PairStringsOfItems(items, k + 1)

PairStrings(node) ==
    IF node.kind \in {"YAMLMap", "YAMLSeq"} THEN PairStringsOfItems(node.items, 1)
    ELSE IF node.kind = "Pair"
    THEN IF node.value.kind = "Scalar"
         THEN (IF node.value.typeofValue = "string" THEN <<node.value.value>> ELSE <<>>)
         ELSE PairStrings(node.value)
    ELSE <<>>

CodesOf(blocks) == [k \in 1..Len(blocks) |-> blocks[k].code]

\* C13: looksLikeTypeScript is true of a string exactly when the string has a
\* whole-word keyword, a colon, optional white space and a type name, the token
\* =>, an import ... from clause, or a < with a > later on the same line; and
\* the walk of the parsed document emits the string scalars that are the value
\* of a pair exactly when the heuristic is true of them, one fragment each
C13_HeuristicDecidesFragments ==
    /\ output.fn = "looksLikeTypeScript" => (output.value <=> LikeEmbeddedCode(input.text))
    /\ output.fn = "findCodeInNode" =>
          CodesOf(output.value)
              = SelectSeq(PairStrings(parseDocument(input.text).contents), LikeEmbeddedCode)

\* the walk has met a pair value it emits and a pair value it leaves out
C13_Witness ==
    /\ output.fn = "findCodeInNode"
    /\ Len(output.value) > 0
    /\ Len(output.value) < Len(PairStrings(parseDocument(input.text).contents))

(***************************************************************************)
(* Properties of the regex pass                                            *)
(***************************************************************************)

\* the indented block of a match: what its last group captured
IndentedBlock(text, match) == SubSeq(text, match.codeStart + 1, match.end)

\* the code of the fragment each match yields: its dedented block
DedentedBlocks(text, matches) ==
    [i \in 1..Len(matches) |-> dedentCode(IndentedBlock(text, matches[i]))]

\* the matches whose indented block passes the five conditions
Passing(text, matches) ==
    SelectSeq(matches, LAMBDA match : LikeEmbeddedCode(IndentedBlock(text, match)))

\* C14: the regex pass yields one fragment for every match of the marker
\* pattern, whatever the heuristic says of its block, then one fragment for
\* every match of the code/script-key pattern whose indented block passes the
\* heuristic and none for the other matches; the code of every fragment is the
\* dedented indented block of its match
C14_MarkerAlwaysKeyIfLikely ==
    output.fn = "extractCodeBlocksWithRegex" =>
        CodesOf(output.value)
            = DedentedBlocks(input.text, tsMarkerMatches(input.text, 0))
                \o DedentedBlocks(input.text,
                                  Passing(input.text, codeBlockMatches(input.text, 0)))

\* the pass has kept a marker match and dropped a key match, the heuristic
\* failing on the blocks of both
C14_Witness ==
    /\ output.fn = "extractCodeBlocksWithRegex"
    /\ Len(output.value) > 0
    /\ With(tsMarkerMatches(input.text, 0),
            LAMBDA marked : Len(Passing(input.text, marked)) < Len(marked))
    /\ With(codeBlockMatches(input.text, 0),
            LAMBDA keyed : Len(Passing(input.text, keyed)) < Len(keyed))

\* a string that is empty or white space only
IsBlank(s) == \A i \in 1..Len(s) : SubSeq(s, i, i) \in WhiteSpace

\* C15: no detection pass, the walk of the parsed document or the regex pass,
\* emits a fragment whose code is empty or white space only
C15_NoBlankFragment ==
    output.fn \in DetectionPasses =>
        \A k \in 1..Len(output.value) : ~IsBlank(output.value[k].code)

(***************************************************************************)
(* Properties of dedentCode                                                *)
(***************************************************************************)

\* the number of blanks a line starts with
LeadingWhitespace(line) == RunEnd(line, 0, BlankChars)

\* the least leading white space over the lines that are not blank
MinimumIndentation(lines) ==
    CHOOSE k \in 0..Len(JoinLines(lines)) :
        /\ \E i \in 1..Len(lines) : ~IsBlank(lines[i]) /\ LeadingWhitespace(lines[i]) = k
        /\ \A i \in 1..Len(lines) : ~IsBlank(lines[i]) => LeadingWhitespace(lines[i]) >= k

\* out is line by line what the sentence says of the dedent of inp by k
DedentedBy(inp, out, k) ==
    /\ Len(out) = Len(inp)
    /\ \A i \in 1..Len(inp) :
          IF IsBlank(inp[i]) THEN out[i] = inp[i]
          ELSE /\ LeadingWhitespace(out[i]) = LeadingWhitespace(inp[i]) - k
               /\ out[i] = SubSeq(inp[i], k + 1, Len(inp[i]))

\* C16: when k is the least leading white space over the non-blank lines of
\* the input of dedentCode, the output has as many lines as the input, every
\* non-blank line has lost exactly k leading blanks, and every blank line
\* (empty or white space only) is the same in the output as in the input
C16_DedentKeepsBlankLines ==
    (output.fn = "dedentCode" /\ ~IsBlank(input.text)) =>
        DedentedBy(SplitLines(input.text), SplitLines(output.value),
                   MinimumIndentation(SplitLines(input.text)))

(***************************************************************************)
(* Properties of the diagnostics of one block                              *)
(***************************************************************************)

\* the offset in text of a position of the host document
RECURSIVE OffsetOfLine(_, _)
OffsetOfLine(lines, line) ==
    IF line = 0 THEN 0 ELSE OffsetOfLine(lines, line - 1) + Len(lines[line]) + 1

OffsetOf(text, position) ==
    IF position.line < Len(SplitLines(text))
    THEN OffsetOfLine(SplitLines(text), position.line) + position.character
    ELSE Len(text) + 1

\* the diagnostic sits on the host lines of the block
OnLinesOf(block, diag) ==
    /\ block.startLine <= diag.range.start.line
    /\ diag.range.end.line <= block.endLine

\* the diagnostic starts inside the host range of the block
StartsInside(text, block, diag) ==
    /\ block.startOffset <= OffsetOf(text, diag.range.start)
    /\ OffsetOf(text, diag.range.start) < block.endOffset

\* C17: with several fragments in one host document, every diagnostic made
\* from a fragment is placed on host lines inside that fragment's own
\* [startLine, endLine], and never inside the host range of another fragment
C17_DiagnosticsStayInOwnFragment ==
    output.fn = "analyzeTypeScriptCode" =>
        \A i \in 1..Len(output.value) :
            /\ OnLinesOf(PassBlocksOf[input.text][output.k], output.value[i])
            /\ \A other \in 1..Len(PassBlocksOf[input.text]) :
                  other # output.k =>
                      ~StartsInside(input.text, PassBlocksOf[input.text][other], output.value[i])

\* what the compiler reported for the block that was analysed
ReportedForBlock == input.outcomes[output.k].tsDiagnostics

\* an engine diagnostic that has both a file and a start position
Placeable(tsDiag) == tsDiag.hasFile /\ tsDiag.hasStart

\* what analyzeTypeScriptCode returns when tsDiag is all the compiler reports
TranslatedAlone(tsDiag) ==
    analyzeTypeScriptCode(PassBlocksOf[input.text][output.k], input.text, <<tsDiag>>)

\* C18: analyzeTypeScriptCode returns one translated diagnostic for each
\* engine diagnostic that has a file and a start position, in the engine's
\* order, and none for an engine diagnostic that lacks either; a diagnostic
\* that is dropped does not change the translation of the others
C18_OnePerPlaceableDiagnostic ==
    output.fn = "analyzeTypeScriptCode" =>
        With(SelectSeq(ReportedForBlock, Placeable),
             LAMBDA placeable :
                /\ Len(output.value) = Len(placeable)
                /\ \A i \in 1..Len(placeable) :
                      /\ output.value[i].code = placeable[i].code
                      /\ <<output.value[i]>> = TranslatedAlone(placeable[i])
                /\ \A i \in 1..Len(ReportedForBlock) :
                      ~Placeable(ReportedForBlock[i])
                          => TranslatedAlone(ReportedForBlock[i]) = <<>>)

\* a diagnostic without a position was reported before one with a position,
\* and the block has its one diagnostic
C18_Witness ==
    /\ output.fn = "analyzeTypeScriptCode"
    /\ Len(ReportedForBlock) = 2
    /\ ~Placeable(ReportedForBlock[1])
    /\ Placeable(ReportedForBlock[2])
    /\ Len(output.value) = 1

(***************************************************************************)
(* Properties of what a translated diagnostic carries                      *)
(***************************************************************************)

\* the severity of the editor that answers to a category of the compiler
SeverityNamed(category) ==
    CASE category = "Error" -> "Error"
      [] category = "Warning" -> "Warning"
      [] category = "Message" -> "Information"

\* message is the text of the compiler's message: the text itself when it is a
\* plain string, the head followed by the texts of the chain otherwise
KeepsMessage(message, messageText) ==
    IF messageText.next = <<>> THEN message = messageText.messageText
    ELSE /\ StartsWithAt(message, messageText.messageText, 0)
         /\ \A k \in 1..Len(messageText.next) :
               IndexOf(message, messageText.next[k].messageText)
                   >= Len(messageText.messageText)

\* the diagnostics mapDiagnosticsToSource has appended
Appended == SubSeq(DiagnosticsOf(output.value, SourceUri),
                   Len(DiagnosticsOf(output.before, SourceUri)) + 1,
                   Len(DiagnosticsOf(output.value, SourceUri)))

\* C19: a translated diagnostic has the message, the severity and the code of
\* the diagnostic it is made from, and its source is "TypeScript (in YAML)",
\* whether analyzeTypeScriptCode or mapDiagnosticsToSource made it
C19_MessageSeverityCodeKept ==
    /\ output.fn = "analyzeTypeScriptCode" =>
          /\ Len(output.value) = Len(output.tsDiagnostics)
          /\ \A k \in 1..Len(output.value) :
                /\ KeepsMessage(output.value[k].message, output.tsDiagnostics[k].messageText)
                /\ output.value[k].severity = SeverityNamed(output.tsDiagnostics[k].category)
                /\ output.value[k].code = output.tsDiagnostics[k].code
                /\ output.value[k].source = "TypeScript (in YAML)"
    /\ output.fn = "mapDiagnosticsToSource" =>
          /\ Len(Appended) = Len(output.diagnostics)
          /\ \A k \in 1..Len(Appended) :
                /\ Appended[k].message = output.diagnostics[k].message
                /\ Appended[k].severity = output.diagnostics[k].severity
                /\ Appended[k].code = output.diagnostics[k].code
                /\ Appended[k].source = "TypeScript (in YAML)"

\* mapDiagnosticsToSource has stamped a diagnostic the language server
\* published under another source
C19_Witness ==
    /\ output.fn = "mapDiagnosticsToSource"
    /\ Len(output.diagnostics) > 0
    /\ output.diagnostics[1].source # "TypeScript (in YAML)"
    /\ Len(Appended) > 0

(***************************************************************************)
(* Properties of the provider                                              *)
(***************************************************************************)

\* the content uri has after the first k calls of the log: that of its most
\* recent register when no unregister of it came later, none otherwise
RECURSIVE ContentAfter(_, _, _)
ContentAfter(log, uri, k) ==
    IF k = 0 THEN ""
    ELSE IF log[k].uri = uri /\ log[k].op = "register" THEN log[k].content
    ELSE IF log[k].uri = uri /\ log[k].op = "unregister" THEN ""
    ELSE ContentAfter(log, uri, k - 1)

\* C20: after any sequence of register and unregister calls, a read of a URI
\* returns the content of the most recent register of that URI when no
\* unregister of it followed, and the empty string otherwise (a URI never
\* registered, or deleted since)
C20_ReadReturnsLatestOrEmpty ==
    output.fn = "provider.provideTextDocumentContent" =>
        output.value = ContentAfter(input.log, output.uri, Len(input.log))

\* a URI was read after it was registered, deleted and nothing else
C20_Witness ==
    /\ output.fn = "provider.provideTextDocumentContent"
    /\ Len(input.log) = 3
    /\ input.log[1].op = "register" /\ input.log[1].uri = output.uri
    /\ input.log[1].content # ""
    /\ input.log[2].op = "unregister" /\ input.log[2].uri = output.uri
    /\ output.value = ""

\* the call a step of the provider has just made
LastCall == input'.log[Len(input'.log)]

\* C21: a register call stores the content, and fires a change notification
\* exactly when the URI was already registered with a different content; a
\* first registration, or one with the content already stored, fires none
C21_RegisterFiresOnChangeOnly ==
    [][output'.fn = "provider.updateDocument" =>
          /\ MapHas(documents', LastCall.uri)
          /\ documents'[LastCall.uri] = LastCall.content
          /\ IF MapHas(documents, LastCall.uri)
                    /\ documents[LastCall.uri] # LastCall.content
             THEN fired' = Append(fired, LastCall.uri)
             ELSE fired' = fired]_vars

\* C22: an unregister call removes the content stored for the URI and fires a
\* notification for that URI
C22_UnregisterRemovesAndFires ==
    [][output'.fn = "provider.deleteDocument" =>
          /\ ~MapHas(documents', LastCall.uri)
          /\ fired' = Append(fired, LastCall.uri)]_vars

(***************************************************************************)
(* Properties of the coordinate mapping                                    *)
(***************************************************************************)

\* toLocal of a position of the host document: the inverse the Coordinate
\* Mapper is specified to have (the program has the mapping to the host only)
toLocal(codeBlock, width, host) ==
    [line |-> host.line - codeBlock.startLine, character |-> host.character - width]

\* a range of the host document, taken back to the code of the block
ToLocalRange(codeBlock, width, range) ==
    [start |-> toLocal(codeBlock, width, range.start),
     end |-> toLocal(codeBlock, width, range.end)]

\* where the compiler put a diagnostic in the code of the block
LocalRangeOf(code, tsDiag) ==
    [start |-> getLineAndCharacterOfPosition(code, tsDiag.start),
     end |-> getLineAndCharacterOfPosition(code, tsDiag.start + tsDiag.length)]

\* C23: a position of the code of a fragment, mapped to the host document
\* and back, is the position itself, whichever of analyzeTypeScriptCode and
\* mapDiagnosticsToSource mapped it to the host
C23_RoundTrip ==
    /\ output.fn = "analyzeTypeScriptCode" =>
          \A k \in 1..Len(output.value) :
              ToLocalRange(InputBlock, indentWidth(InputBlock, input.text),
                           output.value[k].range)
                  = LocalRangeOf(InputBlock.code, output.tsDiagnostics[k])
    /\ output.fn = "mapDiagnosticsToSource" =>
          \A k \in 1..Len(Appended) :
              ToLocalRange(InputBlock, indentWidth(InputBlock, input.text), Appended[k].range)
                  = output.diagnostics[k].range

(***************************************************************************)
(* Properties of the two passes of the detection, side by side             *)
(***************************************************************************)

\* C24: for a document of one key with a code-ish name whose value is a block
\* scalar that passes the heuristic, the walk of the parsed document and the
\* regex pass return one fragment each, and the two have the same code
C24_PassesAgreeOnSimpleTexts ==
    (output.fn = "findCodeInNode" /\ input.text \in SimpleTexts) =>
        With(extractCodeBlocksWithRegex(input.text),
             LAMBDA fallback :
                /\ Len(output.value) = 1
                /\ Len(fallback) = 1
                /\ output.value[1].code = fallback[1].code)

(***************************************************************************)
(* Properties of the documents that are not YAML                           *)
(***************************************************************************)

\* what the notifications have recorded of a document
RecordedOf(doc) == <<phase[doc], lastText[doc], lastRun[doc]>>

\* the step is an open or a change notification for doc
OpenedOrChanged(doc) ==
    /\ phase'[doc] = "updated"
    /\ <<phase'[doc], lastText'[doc], lastRun'[doc]>> # RecordedOf(doc)

\* C26: an open or change notification for a document whose language is
\* neither yaml nor yml leaves the state as it was: no diagnostic set, virtual
\* document or map entry of any document is created, modified or removed
C26_OtherLanguagesLeaveNoTrace ==
    [][\A doc \in HostDocuments :
          (LanguageIdOf[doc] \notin {"yaml", "yml"} /\ OpenedOrChanged(doc))
              => UNCHANGED manager]_vars

\* a document that is not YAML is open, with the text of Scenario A, next to a
\* YAML document that has diagnostics
C26_Witness ==
    /\ phase["file:///notes.md"] = "updated"
    /\ lastText["file:///notes.md"] = ScenarioA
    /\ DiagnosticsOf(diagnosticCollection, "file:///notes.md") = <<>>
    /\ DiagnosticsOf(diagnosticCollection, "file:///a.yaml") # <<>>

(***************************************************************************)
(* Properties of the walk of the parsed document                           *)
(***************************************************************************)

\* the string scalars at and below node in document order, each with whether
\* it is the value of a pair
RECURSIVE StringsBelow(_, _)
RECURSIVE StringsBelowItems(_, _)

StringsBelowItems(items, k) ==
    IF k > Len(items) THEN <<>>
    ELSE StringsBelow(items[k], FALSE) \o StringsBelowItems(items, k + 1)

StringsBelow(node, ofPair) ==
    IF node.kind = "Scalar"
    THEN (IF node.typeofValue = "string"
          THEN <<[value |-> node.value, ofPair |-> ofPair, range |-> node.range]>>
          ELSE <<>>)
    ELSE IF node.kind = "Pair"
    THEN StringsBelow(node.key, FALSE) \o StringsBelow(node.value, TRUE)
    ELSE IF node.kind \in {"YAMLMap", "YAMLSeq"} THEN StringsBelowItems(node.items, 1)
    ELSE <<>>

\* a string the walk is to emit a fragment for
ToBeEmitted(string) == string.ofPair /\ LikeEmbeddedCode(string.value)

\* a string like embedded code that is a key, an item of a sequence or the root
LikeCodeOutsidePair(string) == ~string.ofPair /\ LikeEmbeddedCode(string.value)

ValuesOf(strings) == [k \in 1..Len(strings) |-> strings[k].value]

\* C27: the fragments of the walk are, in document order and one each, the
\* strings like embedded code that are the value of a pair at any depth of
\* maps and sequences; a string that is an item of a sequence, the root of
\* the document or a key yields no fragment, however much it is like code
C27_OnlyPairValuesEmitted ==
    output.fn = "findCodeInNode" =>
        With(StringsBelow(parseDocument(input.text).contents, FALSE),
             LAMBDA strings :
                CodesOf(output.value) = ValuesOf(SelectSeq(strings, ToBeEmitted)))

\* the walk has emitted a fragment and passed by a string like embedded code
\* that is not the value of a pair
C27_Witness ==
    /\ output.fn = "findCodeInNode"
    /\ Len(output.value) > 0
    /\ SelectSeq(StringsBelow(parseDocument(input.text).contents, FALSE),
                 LikeCodeOutsidePair) # <<>>

\* the offsets just after the line breaks of text that lie in [from, to)
AfterLineBreaks(text, from, to) == {at \in (from + 1)..to : CharAt(text, at - 1) = "\n"}

\* the number of line breaks of text before offset
LineBreaksBefore(text, offset) == Cardinality(AfterLineBreaks(text, 0, offset))

\* where the fragment of a scalar of raw range [r0, r1) is to start
StartWithin(text, r0, r1) ==
    IF AfterLineBreaks(text, r0, r1) = {} THEN r0 ELSE Least(AfterLineBreaks(text, r0, r1))

\* block is the fragment of the scalar string, as the claim C28 places it
PlacedBy(text, block, string) ==
    /\ block.startOffset = StartWithin(text, string.range[1], string.range[2])
    /\ block.endOffset = string.range[2]
    /\ block.startLine = LineBreaksBefore(text, block.startOffset)
    /\ block.endLine = LineBreaksBefore(text, block.endOffset)
    /\ block.startOffset <= block.endOffset
    /\ block.startLine <= block.endLine
    /\ CharAt(text, string.range[1]) \in {"|", ">"}
            => block.startLine = LineBreaksBefore(text, string.range[1]) + 1

\* C28: a fragment of the walk, emitted for a scalar of raw range [r0, r1),
\* starts one past the first line break inside the range, or at r0 when the
\* range has none, and ends at r1; its start and end lines are the numbers of
\* line breaks of the text before these offsets; so start is at most end, in
\* offsets and in lines, and the fragment of a block scalar starts on the
\* line after the line of its indicator
C28_FragmentPlacedByRange ==
    output.fn = "findCodeInNode" =>
        With(SelectSeq(StringsBelow(parseDocument(input.text).contents, FALSE), ToBeEmitted),
             LAMBDA strings :
                /\ Len(output.value) = Len(strings)
                /\ \A k \in 1..Len(strings) :
                      PlacedBy(input.text, output.value[k], strings[k]))

\* the walk has emitted the fragment of a block scalar, past its indicator
\* line, and the fragment of a scalar whose range has no line break
C28_Witness ==
    /\ output.fn = "findCodeInNode"
    /\ \E k \in 1..Len(output.value) :
          /\ output.value[k].startLine > 0
          /\ CharAt(input.text, output.value[k].startOffset - 1) = "\n"
    /\ \E k \in 1..Len(output.value) :
          AfterLineBreaks(input.text, output.value[k].startOffset,
                          output.value[k].endOffset) = {}

(***************************************************************************)
(* Properties of the two passes in one try block                           *)
(***************************************************************************)

\* the blocks of a list, as a set
BlocksIn(blocks) == {blocks[k] : k \in 1..Len(blocks)}

\* what the walk found in text, nothing when the text does not parse
FoundByWalk(text) ==
    With(parseDocument(text),
         LAMBDA parsed : IF parsed.status = "ok"
                         THEN BlocksIn(findCodeInNode(text, parsed.contents)) ELSE {})

\* C29: what extractCodeBlocks returns is all of the structural pass or all of
\* the regex pass, never blocks of both, whether the failure that starts the
\* regex pass is raised by the parsing or after the walk has pushed blocks
C29_NeverAMixture ==
    output.fn \in {"extractCodeBlocks", "extractCodeBlocks, raising"} =>
        \/ BlocksIn(output.value) \subseteq FoundByWalk(input.text)
        \/ BlocksIn(output.value) \subseteq BlocksIn(extractCodeBlocksWithRegex(input.text))

(***************************************************************************)
(* Properties of the maps of the manager                                   *)
(***************************************************************************)

\* nothing is registered: no virtual document of any document, in either map
\* or in the table of the provider
NothingRegistered ==
    /\ documentToVirtualMap = EmptyMap
    /\ virtualToSourceMap = EmptyMap
    /\ documents = EmptyMap

\* the step changes the diagnostics of doc
DiagnosticsWritten(doc) ==
    DiagnosticsOf(diagnosticCollection', doc) # DiagnosticsOf(diagnosticCollection, doc)

\* the step is an open or change notification of doc, processed by
\* updateDocument, or its close notification, processed by cleanupDocument
UpdatedOrCleanedUp(doc) ==
    /\ <<phase'[doc], lastText'[doc], lastRun'[doc]>> # RecordedOf(doc)
    /\ phase'[doc] \in {"updated", "closed"}

====
